---- MODULE Spec2Model ----
(***************************************************************************)
(* Model of package-operator's generic Package reconciliation engine       *)
(* (internal/controllers/packages/package_controller.go) and of the        *)
(* self-bootstrap code of the manager binary                               *)
(* (cmd/package-operator-manager/bootstrap.go).                            *)
(*                                                                         *)
(* Errors are modelled by their class: "nil", "NotFound", "AlreadyExists"  *)
(* and "Err" (conflict, transport or any other failure).  Every call on    *)
(* the cluster client may fail with "Err" at any time.                     *)
(***************************************************************************)
EXTENDS Integers, Sequences, FiniteSets, TLC

(***************************************************************************)
(* Cluster store semantics shared by all components.                       *)
(***************************************************************************)

\* Outcomes of client.Get on an object that exists or not.
ClientGet(exists) ==
    IF exists THEN {"nil", "Err"} ELSE {"NotFound", "Err"}

\* Outcomes of client.Update / client.Patch / client.Delete on an object:
\* a write to an object that is not in the store answers NotFound.
ClientWrite(exists) ==
    IF exists THEN {"nil", "Err"} ELSE {"NotFound", "Err"}

\* client.IgnoreNotFound; without it the error of Get is returned as it is.
IgnoreNotFound_Keeps(e) == e

IgnoreNotFound(e) ==
    IF e = "NotFound" THEN "nil" ELSE e

(***************************************************************************)
(* Part 1.  GenericPackageController.Reconcile                             *)
(***************************************************************************)

loaderJobFinalizer == "package-operator.run/loader-job"

\* Finalizer tokens a Package may carry: the legacy one and a foreign one.
PkgFinalizers == {loaderJobFinalizer, "other"}

\* Conditions the sub-reconcilers report on the Package.
PkgConditions == {"Unpacked", "Available"}

\* Number of sub-reconcilers newGenericPackageController puts in the chain.
NumReconcilers == 2

NoPackage ==
    [exists |-> FALSE, deleting |-> FALSE, finalizers |-> {},
     conds |-> {}, phase |-> "none"]

VARIABLES
    pkgStore,        \* the Package as held by the cluster store
    pkg,             \* the copy Reconcile loaded (c.newPackage + client.Get)
    rPc,             \* position of the running Reconcile call
    rIdx,            \* index of the next sub-reconciler of the chain
    res,             \* named return value res: "zero" or "requeue"
    err,             \* named return value err
    rLoaded,         \* the Get of this call succeeded
    outcomes,        \* sub-reconciler calls of this call: <<[idx, res, err]>>
    statusUpdateRan, \* updateStatus was called in this call
    deletionRan,     \* handleDeletion was called in this call
    metricsRecorded, \* RecordPackageMetrics was called in this call
    storeWrites,     \* number of write calls this call issued to the store
    recorder,        \* c.recorder is set
    fetchErr         \* what the Get of this call answered

rvars == <<pkgStore, pkg, rPc, rIdx, res, err, rLoaded, outcomes,
           statusUpdateRan, deletionRan, metricsRecorded, storeWrites,
           recorder, fetchErr>>

\* The store removes an object in deletion once its finalizer list is empty.
ReapPackage(o) ==
    IF o.exists /\ o.deleting /\ o.finalizers = {} THEN NoPackage ELSE o

\* pkg.UpdatePhase(): the aggregate phase of the current conditions.
UpdatePhase(p) ==
    [p EXCEPT !.phase =
        IF "Available" \in p.conds THEN "Available"
        ELSE IF "Unpacked" \in p.conds THEN "Progressing"
        ELSE "Unpacking"]

\* !pkgClientObject.GetDeletionTimestamp().IsZero()
InDeletion_NeverTaken(p) == FALSE

InDeletion(p) == p.deleting

\* The loop's exit test: err != nil || !res.IsZero()
ChainStops_ErrOnly(r, e) == e # "nil"

ChainStops(r, e) == e # "nil" \/ r # "zero"

\* The test after the loop that returns before updateStatus: err != nil
ReturnsBeforeStatus_AlsoOnResult(r, e) == e # "nil" \/ r # "zero"

ReturnsBeforeStatus(r, e) == e # "nil"

\* The deferred function of Reconcile, lines 123-130, on the error the call
\* returns and with c.recorder set or not.
MetricsHookRuns_AlsoOnError(e, rec) == rec

MetricsHookRuns(e, rec) == e = "nil" /\ rec

\* The Packages the store can hold: one in deletion carries a finalizer,
\* or the store would have removed it already.
PackageStates ==
    { [exists |-> TRUE, deleting |-> d, finalizers |-> f,
       conds |-> {}, phase |-> "none"] :
         d \in BOOLEAN, f \in SUBSET PkgFinalizers }

RInit ==
    /\ pkgStore \in {NoPackage} \cup {p \in PackageStates : ReapPackage(p) = p}
    /\ pkg = NoPackage
    /\ rPc = "idle"
    /\ rIdx = 1
    /\ res = "zero"
    /\ err = "nil"
    /\ rLoaded = FALSE
    /\ outcomes = <<>>
    /\ statusUpdateRan = FALSE
    /\ deletionRan = FALSE
    /\ metricsRecorded = FALSE
    /\ storeWrites = 0
    /\ recorder \in BOOLEAN
    /\ fetchErr = "none"

\* Reconcile, lines 118-138: fetch the Package, register the metrics defer,
\* and choose between the deletion path and the forward chain.
Reconcile_Get ==
    /\ rPc = "idle"
    /\ \E e \in ClientGet(pkgStore.exists) :
         /\ fetchErr' = e
         /\ IF e # "nil"
            THEN /\ err' = IgnoreNotFound(e)
                 /\ rPc' = "returned"
                 /\ UNCHANGED <<pkg, rLoaded>>
            ELSE /\ pkg' = pkgStore
                 /\ rLoaded' = TRUE
                 /\ rPc' = IF InDeletion(pkgStore) THEN "deletion" ELSE "chain"
                 /\ UNCHANGED err
    /\ UNCHANGED <<pkgStore, rIdx, res, outcomes, statusUpdateRan,
                   deletionRan, metricsRecorded, storeWrites, recorder>>

\* controllers.RemoveFinalizer followed by client.Update (handleDeletion),
\* then the return of Reconcile with its deferred metrics hook.
Reconcile_HandleDeletion ==
    /\ rPc = "deletion"
    /\ deletionRan' = TRUE
    /\ rPc' = "returned"
    /\ IF loaderJobFinalizer \in pkg.finalizers
       THEN \E pe \in ClientWrite(pkgStore.exists) :
              LET mem == [pkg EXCEPT !.finalizers = @ \ {loaderJobFinalizer}]
                  patched == ReapPackage(
                      [pkgStore EXCEPT !.finalizers = @ \ {loaderJobFinalizer}])
              IN  IF pe # "nil"
                  THEN /\ pkg' = mem
                       /\ err' = pe
                       /\ storeWrites' = storeWrites + 1
                       /\ UNCHANGED pkgStore
                  ELSE \E ue \in ClientWrite(patched.exists) :
                         /\ pkg' = mem
                         /\ err' = ue
                         /\ storeWrites' = storeWrites + 2
                         /\ pkgStore' =
                              IF ue = "nil"
                              THEN ReapPackage(
                                     [patched EXCEPT !.finalizers = mem.finalizers])
                              ELSE patched
       ELSE \E ue \in ClientWrite(pkgStore.exists) :
              /\ err' = ue
              /\ storeWrites' = storeWrites + 1
              /\ pkgStore' =
                   IF ue = "nil"
                   THEN ReapPackage([pkgStore EXCEPT !.finalizers = pkg.finalizers])
                   ELSE pkgStore
              /\ UNCHANGED pkg
    /\ metricsRecorded' = MetricsHookRuns(err', recorder)
    /\ UNCHANGED <<rIdx, res, rLoaded, outcomes, statusUpdateRan, recorder,
                   fetchErr>>

\* One iteration of the loop over c.reconciler (lines 140-145): the
\* sub-reconciler may change the loaded object and returns any result.
Reconcile_Sub ==
    /\ rPc = "chain"
    /\ rIdx <= NumReconcilers
    /\ \E r \in {"zero", "requeue"}, e \in {"nil", "Err"},
          cs \in SUBSET PkgConditions :
         /\ res' = r
         /\ err' = e
         /\ pkg' = [pkg EXCEPT !.conds = cs]
         /\ outcomes' = Append(outcomes, [idx |-> rIdx, res |-> r, err |-> e])
         /\ IF ChainStops(r, e) \/ rIdx = NumReconcilers
            THEN rPc' = "afterchain" /\ UNCHANGED rIdx
            ELSE rPc' = "chain" /\ rIdx' = rIdx + 1
    /\ UNCHANGED <<pkgStore, rLoaded, statusUpdateRan, deletionRan,
                   metricsRecorded, storeWrites, recorder, fetchErr>>

\* Lines 146-150 and updateStatus: return the chain's error, or recompute the
\* phase and persist the status; then the deferred metrics hook.
Reconcile_Finish ==
    /\ rPc = "afterchain"
    /\ rPc' = "returned"
    /\ IF ReturnsBeforeStatus(res, err)
       THEN UNCHANGED <<pkg, pkgStore, err, statusUpdateRan, storeWrites>>
       ELSE /\ statusUpdateRan' = TRUE
            /\ storeWrites' = storeWrites + 1
            /\ pkg' = UpdatePhase(pkg)
            /\ \E ue \in ClientWrite(pkgStore.exists) :
                 /\ err' = ue
                 /\ pkgStore' =
                      IF ue = "nil"
                      THEN [pkgStore EXCEPT !.conds = pkg'.conds,
                                            !.phase = pkg'.phase]
                      ELSE pkgStore
    /\ metricsRecorded' = MetricsHookRuns(err', recorder)
    /\ UNCHANGED <<rIdx, res, rLoaded, outcomes, deletionRan, recorder,
                   fetchErr>>

\* The scheduler hands the next request to Reconcile.
Reconcile_Next ==
    /\ rPc = "returned"
    /\ rPc' = "idle"
    /\ pkg' = NoPackage
    /\ rIdx' = 1
    /\ res' = "zero"
    /\ err' = "nil"
    /\ rLoaded' = FALSE
    /\ outcomes' = <<>>
    /\ statusUpdateRan' = FALSE
    /\ deletionRan' = FALSE
    /\ metricsRecorded' = FALSE
    /\ storeWrites' = 0
    /\ fetchErr' = "none"
    /\ UNCHANGED <<pkgStore, recorder>>

\* A user deletes the Package: the store marks it, or removes it at once
\* when it carries no finalizer.
User_DeletePackage ==
    /\ pkgStore.exists /\ ~pkgStore.deleting
    /\ pkgStore' = ReapPackage([pkgStore EXCEPT !.deleting = TRUE])
    /\ UNCHANGED <<pkg, rPc, rIdx, res, err, rLoaded, outcomes,
                   statusUpdateRan, deletionRan, metricsRecorded, storeWrites,
                   recorder, fetchErr>>

\* A user creates the Package.
User_CreatePackage ==
    /\ ~pkgStore.exists
    /\ \E f \in SUBSET PkgFinalizers :
         pkgStore' = [exists |-> TRUE, deleting |-> FALSE, finalizers |-> f,
                      conds |-> {}, phase |-> "none"]
    /\ UNCHANGED <<pkg, rPc, rIdx, res, err, rLoaded, outcomes,
                   statusUpdateRan, deletionRan, metricsRecorded, storeWrites,
                   recorder, fetchErr>>

(***************************************************************************)
(* Part 2.  bootstrapper.fixMissingRevisionNumbers                         *)
(***************************************************************************)

\* The ClusterObjectSets of the package-operator instance, by name, oldest
\* first: a revision's previous references name older revisions only.
COSNames == {1, 2, 3}

\* Largest revision number a ClusterObjectSet starts with.
MaxRevision == 2

\* Largest number of finalizers an object starts with.
MaxFinalizers == 2

NoCOS ==
    [exists |-> FALSE, deleting |-> FALSE, finalizers |-> 0,
     revision |-> 0, previous |-> {}, phase |-> "Pending"]

VARIABLES
    cos,          \* the ClusterObjectSets as held by the cluster store
    cosList,      \* clusterObjectSetList.Items: the names in list order
    cosItems,     \* the listed objects in memory, which cosByName points to
    cosSnapshot,  \* the listed objects as the List call returned them
    fixPc,        \* position of fixMissingRevisionNumbers
    fixIdx,       \* index i of the second loop
    fixPatched    \* names a status patch was issued for

fvars == <<cos, cosList, cosItems, cosSnapshot, fixPc, fixIdx, fixPatched>>

\* All orders in which the store may list the objects of set S.
ListOrders(S) ==
    { q \in [1..Cardinality(S) -> S] : \A n \in S : \E i \in DOMAIN q : q[i] = n }

\* The loop of highestRevisionNumber with its accumulator maxRevision.
RECURSIVE highestRevisionNumberFrom(_, _, _)
highestRevisionNumberFrom(cosByName, prevs, maxRevision) ==
    IF prevs = {} THEN maxRevision
    ELSE LET prev == CHOOSE x \in prevs : TRUE
         IN  highestRevisionNumberFrom(
                 cosByName, prevs \ {prev},
                 IF cosByName[prev].revision > maxRevision
                 THEN cosByName[prev].revision
                 ELSE maxRevision)

highestRevisionNumber(cosByName, prevs) ==
    highestRevisionNumberFrom(cosByName, prevs, 0)

\* cosByName[prev.Name] is a nil pointer for a name that was not listed, and
\* reading .Status.Revision through it panics.
NilDereference(cosByName, prevs) ==
    \E prev \in prevs : prev \notin DOMAIN cosByName

\* The "assume it's stuck" test of the second loop.
LooksStuck(c) ==
    c.revision = 0 /\ c.previous # {} /\ c.phase = "Pending"

\* The revision objects a snapshot may hold.
COSStates(n) ==
    {NoCOS} \cup
    { [exists |-> TRUE, deleting |-> FALSE, finalizers |-> 0,
       revision |-> r, previous |-> p, phase |-> ph] :
         r \in 0..MaxRevision,
         p \in SUBSET {m \in COSNames : m < n},
         ph \in {"Pending", "Available"} }

FInit ==
    /\ cos \in {f \in [COSNames -> UNION {COSStates(n) : n \in COSNames}] :
                  \A n \in COSNames : f[n] \in COSStates(n)}
    /\ cosList = <<>>
    /\ cosItems = <<>>
    /\ cosSnapshot = <<>>
    /\ fixPc = "list"
    /\ fixIdx = 1
    /\ fixPatched = {}

\* Lines 112-123: list the ClusterObjectSets and index them by name.
Fix_List ==
    /\ fixPc = "list"
    /\ \/ /\ fixPc' = "failed"
          /\ UNCHANGED <<cosList, cosItems, cosSnapshot>>
       \/ LET listed == {n \in COSNames : cos[n].exists}
              items == [n \in listed |->
                          [revision |-> cos[n].revision,
                           previous |-> cos[n].previous,
                           phase |-> cos[n].phase]]
          IN  \E q \in ListOrders(listed) :
                /\ cosList' = q
                /\ cosItems' = items
                /\ cosSnapshot' = items
                /\ fixPc' = IF listed = {} THEN "done" ELSE "loop"
    /\ fixIdx' = 1
    /\ fixPatched' = {}
    /\ UNCHANGED cos

\* One iteration of the second loop, lines 125-137.
Fix_Step ==
    /\ fixPc = "loop"
    /\ LET name == cosList[fixIdx]
           c == cosItems[name]
           next == IF fixIdx = Len(cosList) THEN "done" ELSE "loop"
       IN  IF ~LooksStuck(c)
           THEN /\ fixPc' = next
                /\ UNCHANGED <<cos, cosItems, fixPatched>>
           ELSE IF NilDereference(cosItems, c.previous)
           THEN /\ fixPc' = "panic"
                /\ UNCHANGED <<cos, cosItems, fixPatched>>
           ELSE LET rev == highestRevisionNumber(cosItems, c.previous) + 1
                IN  /\ cosItems' = [cosItems EXCEPT ![name].revision = rev]
                    /\ fixPatched' = fixPatched \cup {name}
                    /\ \E pe \in ClientWrite(cos[name].exists) :
                         IF pe = "nil"
                         THEN /\ cos' = [cos EXCEPT ![name].revision = rev]
                              /\ fixPc' = next
                         ELSE /\ fixPc' = "failed"
                              /\ UNCHANGED cos
    /\ fixIdx' = IF fixPc' = "loop" THEN fixIdx + 1 ELSE fixIdx
    /\ UNCHANGED <<cosList, cosSnapshot>>


(***************************************************************************)
(* Part 3.  bootstrapper.Bootstrap and the forced cleanup                  *)
(***************************************************************************)

\* The ClusterObjectDeployments labelled as belonging to package-operator.
ODNames == {"package-operator"}

\* The CustomResourceDefinitions of the bundle under /package, in phase order.
BundleCRDs == <<"clusterpackages", "clusterobjectsets">>

\* What the Available condition of the package-operator-manager Deployment
\* says: the Deployment is absent, or the condition is True, False or not set.
DeployStates == {"absent", "True", "False", "None"}

NoClusterPackage ==
    [exists |-> FALSE, deleting |-> FALSE, finalizers |-> 0,
     available |-> FALSE, image |-> "none"]

NoOD ==
    [exists |-> FALSE, deleting |-> FALSE, finalizers |-> 0]

VARIABLES
    cpkg,         \* the ClusterPackage "package-operator" in the store
    deploy,       \* the Deployment package-operator-manager in the store
    ods,          \* the ClusterObjectDeployments in the store
    crds,         \* the CustomResourceDefinitions in the store
    memPkg,       \* packageOperatorPackage, the copy Bootstrap loaded
    bPc,          \* position of the Bootstrap call
    bErr,         \* the error Bootstrap returned
    cList,        \* Items of the list forcedCleanup is walking, in list order
    cMem,         \* the finalizers of the listed objects in memory
    cIdx,         \* index i of the loop forcedCleanup is in
    crdIdx,       \* index i of the loop of ensureCRDs
    pollerPc,     \* position of the goroutine cancelWhenPackageAvailable
    ctxCancelled, \* cancel() of the context given to runManager was called
    managerPc,    \* position of runManager
    forceAdoption,\* the environment variable PKO_FORCE_ADOPTION is set
    envActed,     \* another controller changed a finalizer list
    probeSaw,     \* what needsForcedCleanup read from the store
    fcResult,     \* how forcedCleanup ended
    fcEntryEmpty, \* the owned objects were all gone when forcedCleanup began
    odListed,     \* the ClusterObjectDeployments forcedCleanup listed
    osListed,     \* the ClusterObjectSets forcedCleanup listed
    cLog,         \* the client calls forcedCleanup made, with their outcomes
    bSteps        \* the steps this Bootstrap run completed

bvars == <<cpkg, deploy, ods, crds, memPkg, bPc, bErr, cList, cMem, cIdx,
           crdIdx, pollerPc, ctxCancelled, managerPc, forceAdoption, envActed,
           probeSaw, fcResult, fcEntryEmpty, odListed, osListed, cLog,
           bSteps>>

VARIABLES
    peerPc,       \* position of a second Bootstrap run racing with this one
    peerCrdIdx,   \* index i of the loop of ensureCRDs in the second run
    peerErr,      \* the error the second run returned
    createLog     \* the calls of createPKOPackage: who, outcome of Create,
                  \* error returned

pvars == <<peerPc, peerCrdIdx, peerErr, createLog>>

\* client.Delete: the store removes an object without finalizers at once and
\* marks one with finalizers as in deletion.
StoreDelete(o, gone) ==
    IF o.finalizers = 0 THEN gone ELSE [o EXCEPT !.deleting = TRUE]

\* client.Update with the finalizer list f: the store removes an object in
\* deletion once the list is empty.
StoreSetFinalizers(o, f, gone) ==
    IF o.deleting /\ f = 0 THEN gone ELSE [o EXCEPT !.finalizers = f]

\* Outcomes of client.Create.
ClientCreate(exists) ==
    IF exists THEN {"AlreadyExists", "Err"} ELSE {"nil", "Err"}

\* needsForcedCleanup, lines 306-319, for a Get that ended with e on a
\* Deployment whose Available condition is d.
needsForcedCleanup_OnlyUnavailable(e, d) ==
    e = "nil" /\ d = "False"

needsForcedCleanup(e, d) ==
    \/ e = "NotFound"
    \/ e = "nil" /\ d = "False"

\* len(obj.Finalizers) > 0
HasFinalizers(f) == f > 0

\* forcedCleanup, lines 329-336: after the delete, release the finalizers
\* when the loaded object carries any, then check that the object is gone.
AfterDelete_ChecksOnlyAfterStrip(f, kind) ==
    IF HasFinalizers(f) THEN "strip"
    ELSE IF kind = "pkg" THEN "skip" ELSE "verify"

AfterDelete(f, kind) ==
    IF HasFinalizers(f) THEN "strip" ELSE "verify"

\* The post-delete check passes only on NotFound: !errors.IsNotFound(err)
\* returns an error.
IsGone_AnyAnswer(e) == TRUE

IsGone(e) == e = "NotFound"

\* Nothing the cascade targets is left in the store.
OwnedAllGone ==
    /\ ~cpkg.exists
    /\ \A n \in ODNames : ~ods[n].exists
    /\ \A n \in COSNames : ~cos[n].exists

LogCall(op, kind, name, e) ==
    Append(cLog, [op |-> op, kind |-> kind, name |-> name, e |-> e])

\* forcedCleanup returns the error of a failed call.
FC_Fail(e) ==
    /\ bPc' = "returned"
    /\ bErr' = e
    /\ fcResult' = "error"

\* The ClusterObjectSets the bootstrap may find: the first revision, and a
\* second one that is stuck without a revision number.
BootCOSStates(n) ==
    {NoCOS} \cup
    { [exists |-> TRUE, deleting |-> FALSE, finalizers |-> f,
       revision |-> IF n = 1 THEN 1 ELSE 0,
       previous |-> IF n = 2 THEN {1} ELSE {},
       phase |-> IF n = 1 THEN "Available" ELSE "Pending"] :
         f \in 0..MaxFinalizers }

BInit ==
    /\ cpkg \in
         {NoClusterPackage} \cup
         { [exists |-> TRUE, deleting |-> d, finalizers |-> f,
            available |-> a, image |-> "old"] :
              d \in BOOLEAN, f \in 0..MaxFinalizers, a \in BOOLEAN }
    /\ cpkg.exists /\ cpkg.deleting => cpkg.finalizers > 0 /\ ~cpkg.available
    /\ deploy \in DeployStates
    /\ ods \in [ODNames ->
                  {NoOD} \cup
                  { [exists |-> TRUE, deleting |-> FALSE, finalizers |-> f] :
                       f \in 0..MaxFinalizers }]
    /\ cos \in {f \in [COSNames -> UNION {BootCOSStates(n) : n \in COSNames}] :
                  /\ \A n \in COSNames : f[n] \in BootCOSStates(n)
                  /\ ~f[3].exists}
    /\ crds \in {{}, {BundleCRDs[i] : i \in DOMAIN BundleCRDs}}
    /\ crds = {} =>
          /\ ~cpkg.exists
          /\ \A n \in ODNames : ~ods[n].exists
          /\ \A n \in COSNames : ~cos[n].exists
    /\ memPkg = [finalizers |-> 0]
    /\ bPc = "start"
    /\ bErr = "nil"
    /\ cList = <<>>
    /\ cMem = <<>>
    /\ cIdx = 1
    /\ crdIdx = 1
    /\ pollerPc = "off"
    /\ ctxCancelled = FALSE
    /\ managerPc = "off"
    /\ forceAdoption = FALSE
    /\ envActed = FALSE
    /\ probeSaw = "none"
    /\ fcResult = "none"
    /\ fcEntryEmpty = FALSE
    /\ odListed = {}
    /\ osListed = {}
    /\ cLog = <<>>
    /\ bSteps = {}
    /\ cosList = <<>>
    /\ cosItems = <<>>
    /\ cosSnapshot = <<>>
    /\ fixPc = "idle"
    /\ fixIdx = 1
    /\ fixPatched = {}

\* Bootstrap, lines 84-108: look the ClusterPackage up and choose between
\* the update of an installed Package Operator and the self-bootstrap.
Boot_GetPackage ==
    /\ bPc = "start"
    /\ \E e \in IF crds = {} THEN {"NoMatch", "Err"} ELSE ClientGet(cpkg.exists) :
         IF e = "nil"
         THEN /\ memPkg' = [finalizers |-> cpkg.finalizers]
              /\ bPc' = "probe"
              /\ UNCHANGED bErr
         ELSE IF e \in {"NotFound", "NoMatch"}
         THEN /\ bPc' = "self_load"
              /\ UNCHANGED <<memPkg, bErr>>
         ELSE /\ bPc' = "returned"
              /\ bErr' = e
              /\ UNCHANGED memPkg
    /\ UNCHANGED <<cpkg, deploy, ods, crds, cList, cMem, cIdx, crdIdx,
                   pollerPc, ctxCancelled, managerPc, forceAdoption, envActed,
                   probeSaw, fcResult, fcEntryEmpty, odListed, osListed, cLog,
                   bSteps>>
    /\ UNCHANGED fvars

\* nukeIfNeeded with needsForcedCleanup, lines 288-297: probe the Deployment,
\* then start the forced cleanup or go on to fixMissingRevisionNumbers.
Boot_NukeIfNeeded ==
    /\ bPc = "probe"
    /\ \E e \in ClientGet(deploy # "absent") :
         IF e = "Err"
         THEN /\ bPc' = "returned"
              /\ bErr' = e
              /\ probeSaw' = "error"
              /\ UNCHANGED <<fcResult, fixPc>>
         ELSE /\ probeSaw' = deploy
              /\ UNCHANGED bErr
              /\ IF needsForcedCleanup(e, deploy)
                 THEN /\ bPc' = "fc_pkg_delete"
                      /\ fcResult' = "running"
                      /\ UNCHANGED fixPc
                 ELSE /\ bPc' = "fix"
                      /\ fixPc' = "list"
                      /\ UNCHANGED fcResult
    /\ UNCHANGED <<cpkg, deploy, ods, crds, memPkg, cList, cMem, cIdx, crdIdx,
                   pollerPc, ctxCancelled, managerPc, forceAdoption, envActed,
                   fcEntryEmpty, odListed, osListed, cLog, bSteps>>
    /\ UNCHANGED <<cos, cosList, cosItems, cosSnapshot, fixIdx, fixPatched>>

\* forcedCleanup, line 326: delete the ClusterPackage.
FC_DeletePackage ==
    /\ bPc = "fc_pkg_delete"
    /\ fcEntryEmpty' = OwnedAllGone
    /\ \E e \in ClientWrite(cpkg.exists) :
         /\ cLog' = LogCall("delete", "pkg", "package-operator", e)
         /\ IF e = "nil"
            THEN /\ cpkg' = StoreDelete(cpkg, NoClusterPackage)
                 /\ bPc' = CASE AfterDelete(memPkg.finalizers, "pkg") = "strip"
                                  -> "fc_pkg_strip"
                             [] AfterDelete(memPkg.finalizers, "pkg") = "verify"
                                  -> "fc_pkg_verify"
                             [] OTHER -> "fc_od_list"
                 /\ UNCHANGED <<bErr, fcResult>>
            ELSE /\ FC_Fail(e)
                 /\ UNCHANGED cpkg
    /\ UNCHANGED <<deploy, ods, crds, memPkg, cList, cMem, cIdx, envActed,
                   probeSaw, odListed, osListed, crdIdx, pollerPc, ctxCancelled, managerPc, forceAdoption, bSteps>>
    /\ UNCHANGED fvars

\* forcedCleanup, lines 329-334: release the finalizers of the ClusterPackage.
FC_StripPackage ==
    /\ bPc = "fc_pkg_strip"
    /\ memPkg' = [memPkg EXCEPT !.finalizers = 0]
    /\ \E e \in ClientWrite(cpkg.exists) :
         /\ cLog' = LogCall("strip", "pkg", "package-operator", e)
         /\ IF e = "nil"
            THEN /\ cpkg' = StoreSetFinalizers(cpkg, 0, NoClusterPackage)
                 /\ bPc' = "fc_pkg_verify"
                 /\ UNCHANGED <<bErr, fcResult>>
            ELSE /\ FC_Fail(e)
                 /\ UNCHANGED cpkg
    /\ UNCHANGED <<deploy, ods, crds, cList, cMem, cIdx, envActed, probeSaw,
                   fcEntryEmpty, odListed, osListed, crdIdx, pollerPc, ctxCancelled, managerPc, forceAdoption, bSteps>>
    /\ UNCHANGED fvars

\* forcedCleanup, lines 336-340: the ClusterPackage must be gone.
FC_VerifyPackage ==
    /\ bPc = "fc_pkg_verify"
    /\ \E e \in ClientGet(cpkg.exists) :
         /\ cLog' = LogCall("verify", "pkg", "package-operator", e)
         /\ IF IsGone(e)
            THEN /\ bPc' = "fc_od_list"
                 /\ UNCHANGED <<bErr, fcResult>>
            ELSE FC_Fail(IF e = "nil" THEN "StillExists" ELSE e)
    /\ UNCHANGED <<cpkg, deploy, ods, crds, memPkg, cList, cMem, cIdx,
                   envActed, probeSaw, fcEntryEmpty, odListed, osListed,
                   crdIdx, pollerPc, ctxCancelled, managerPc, forceAdoption, bSteps>>
    /\ UNCHANGED fvars

\* forcedCleanup, lines 343-349: list the ClusterObjectDeployments of the instance.
FC_ListODs ==
    /\ bPc = "fc_od_list"
    /\ cIdx' = 1
    /\ \/ /\ cLog' = LogCall("list", "od", "all", "Err")
          /\ FC_Fail("Err")
          /\ UNCHANGED <<cList, cMem, odListed>>
       \/ LET listed == {n \in ODNames : ods[n].exists}
          IN  \E q \in ListOrders(listed) :
                /\ cLog' = LogCall("list", "od", "all", "nil")
                /\ cList' = q
                /\ cMem' = [n \in listed |-> ods[n].finalizers]
                /\ odListed' = listed
                /\ bPc' = IF listed = {} THEN "fc_os_list" ELSE "fc_od_delete"
                /\ UNCHANGED <<bErr, fcResult>>
    /\ UNCHANGED <<cpkg, deploy, ods, crds, memPkg, envActed, probeSaw,
                   fcEntryEmpty, osListed, crdIdx, pollerPc, ctxCancelled, managerPc, forceAdoption, bSteps>>
    /\ UNCHANGED <<cos, cosList, cosItems, cosSnapshot, fixIdx, fixPatched, fixPc>>

\* forcedCleanup, line 352: delete the ClusterObjectDeployment at index i.
FC_DeleteOD ==
    /\ bPc = "fc_od_delete"
    /\ LET name == cList[cIdx]
       IN  \E e \in ClientWrite(ods[name].exists) :
             /\ cLog' = LogCall("delete", "od", name, e)
             /\ IF e = "nil"
                THEN /\ ods' = [ods EXCEPT ![name] = StoreDelete(@, NoOD)]
                     /\ bPc' = IF AfterDelete(cMem[name], "od") = "strip"
                               THEN "fc_od_strip" ELSE "fc_od_verify"
                     /\ UNCHANGED <<bErr, fcResult>>
                ELSE /\ FC_Fail(e)
                     /\ UNCHANGED ods
    /\ UNCHANGED <<cpkg, deploy, cos, crds, memPkg, cList, cMem, cIdx,
                   envActed, probeSaw, fcEntryEmpty, odListed, osListed,
                   crdIdx, pollerPc, ctxCancelled, managerPc, forceAdoption, bSteps>>
    /\ UNCHANGED <<fixPc, cosList, cosItems, cosSnapshot, fixIdx, fixPatched>>

\* forcedCleanup, lines 355-360: release the finalizers of the ClusterObjectDeployment.
FC_StripOD ==
    /\ bPc = "fc_od_strip"
    /\ LET name == cList[cIdx]
       IN  /\ cMem' = [cMem EXCEPT ![name] = 0]
           /\ \E e \in ClientWrite(ods[name].exists) :
                /\ cLog' = LogCall("strip", "od", name, e)
                /\ IF e = "nil"
                   THEN /\ ods' = [ods EXCEPT
                                       ![name] = StoreSetFinalizers(@, 0, NoOD)]
                        /\ bPc' = "fc_od_verify"
                        /\ UNCHANGED <<bErr, fcResult>>
                   ELSE /\ FC_Fail(e)
                        /\ UNCHANGED ods
    /\ UNCHANGED <<cpkg, deploy, cos, crds, memPkg, cList, cIdx, envActed,
                   probeSaw, fcEntryEmpty, odListed, osListed, crdIdx, pollerPc, ctxCancelled, managerPc, forceAdoption, bSteps>>
    /\ UNCHANGED <<fixPc, cosList, cosItems, cosSnapshot, fixIdx, fixPatched>>

\* forcedCleanup, lines 362-366: the ClusterObjectDeployment must be gone; then the next
\* object, or the next step once the last one is gone.
FC_VerifyOD ==
    /\ bPc = "fc_od_verify"
    /\ LET name == cList[cIdx]
       IN  \E e \in ClientGet(ods[name].exists) :
             /\ cLog' = LogCall("verify", "od", name, e)
             /\ IF IsGone(e)
                THEN /\ bPc' = IF cIdx < Len(cList) THEN "fc_od_delete" ELSE "fc_os_list"
                     /\ cIdx' = IF cIdx < Len(cList) THEN cIdx + 1 ELSE cIdx
                     /\ UNCHANGED <<bErr, fcResult>>
                ELSE /\ FC_Fail(IF e = "nil" THEN "StillExists" ELSE e)
                     /\ UNCHANGED <<cIdx>>
    /\ UNCHANGED <<cpkg, deploy, ods, crds, memPkg, cList, cMem, envActed,
                   probeSaw, fcEntryEmpty, odListed, osListed, crdIdx, pollerPc, ctxCancelled, managerPc, forceAdoption, bSteps>>
    /\ UNCHANGED <<cos, cosList, cosItems, cosSnapshot, fixIdx, fixPatched, fixPc>>

\* forcedCleanup, lines 370-376: list the ClusterObjectSets of the instance.
FC_ListOSs ==
    /\ bPc = "fc_os_list"
    /\ cIdx' = 1
    /\ \/ /\ cLog' = LogCall("list", "os", "all", "Err")
          /\ FC_Fail("Err")
          /\ UNCHANGED <<cList, cMem, osListed, fixPc>>
       \/ LET listed == {n \in COSNames : cos[n].exists}
          IN  \E q \in ListOrders(listed) :
                /\ cLog' = LogCall("list", "os", "all", "nil")
                /\ cList' = q
                /\ cMem' = [n \in listed |-> cos[n].finalizers]
                /\ osListed' = listed
                /\ bPc' = IF listed = {} THEN "fix" ELSE "fc_os_delete"
                /\ fcResult' = IF listed = {} THEN "nil" ELSE fcResult
                /\ fixPc' = IF listed = {} THEN "list" ELSE fixPc
                /\ UNCHANGED bErr
    /\ UNCHANGED <<cpkg, deploy, ods, crds, memPkg, envActed, probeSaw,
                   fcEntryEmpty, odListed, crdIdx, pollerPc, ctxCancelled, managerPc, forceAdoption, bSteps>>
    /\ UNCHANGED <<cos, cosList, cosItems, cosSnapshot, fixIdx, fixPatched>>

\* forcedCleanup, line 379: delete the ClusterObjectSet at index i.
FC_DeleteOS ==
    /\ bPc = "fc_os_delete"
    /\ LET name == cList[cIdx]
       IN  \E e \in ClientWrite(cos[name].exists) :
             /\ cLog' = LogCall("delete", "os", name, e)
             /\ IF e = "nil"
                THEN /\ cos' = [cos EXCEPT ![name] = StoreDelete(@, NoCOS)]
                     /\ bPc' = IF AfterDelete(cMem[name], "os") = "strip"
                               THEN "fc_os_strip" ELSE "fc_os_verify"
                     /\ UNCHANGED <<bErr, fcResult>>
                ELSE /\ FC_Fail(e)
                     /\ UNCHANGED cos
    /\ UNCHANGED <<cpkg, deploy, ods, crds, memPkg, cList, cMem, cIdx,
                   envActed, probeSaw, fcEntryEmpty, odListed, osListed,
                   crdIdx, pollerPc, ctxCancelled, managerPc, forceAdoption, bSteps>>
    /\ UNCHANGED <<fixPc, cosList, cosItems, cosSnapshot, fixIdx, fixPatched>>

\* forcedCleanup, lines 382-387: release the finalizers of the ClusterObjectSet.
FC_StripOS ==
    /\ bPc = "fc_os_strip"
    /\ LET name == cList[cIdx]
       IN  /\ cMem' = [cMem EXCEPT ![name] = 0]
           /\ \E e \in ClientWrite(cos[name].exists) :
                /\ cLog' = LogCall("strip", "os", name, e)
                /\ IF e = "nil"
                   THEN /\ cos' = [cos EXCEPT
                                       ![name] = StoreSetFinalizers(@, 0, NoCOS)]
                        /\ bPc' = "fc_os_verify"
                        /\ UNCHANGED <<bErr, fcResult>>
                   ELSE /\ FC_Fail(e)
                        /\ UNCHANGED cos
    /\ UNCHANGED <<cpkg, deploy, ods, crds, memPkg, cList, cIdx, envActed,
                   probeSaw, fcEntryEmpty, odListed, osListed, crdIdx, pollerPc, ctxCancelled, managerPc, forceAdoption, bSteps>>
    /\ UNCHANGED <<fixPc, cosList, cosItems, cosSnapshot, fixIdx, fixPatched>>

\* forcedCleanup, lines 389-393: the ClusterObjectSet must be gone; then the next
\* object, or the next step once the last one is gone.
FC_VerifyOS ==
    /\ bPc = "fc_os_verify"
    /\ LET name == cList[cIdx]
       IN  \E e \in ClientGet(cos[name].exists) :
             /\ cLog' = LogCall("verify", "os", name, e)
             /\ IF IsGone(e)
                THEN /\ bPc' = IF cIdx < Len(cList) THEN "fc_os_delete" ELSE "fix"
                     /\ cIdx' = IF cIdx < Len(cList) THEN cIdx + 1 ELSE cIdx
                     /\ fcResult' = IF cIdx < Len(cList) THEN fcResult ELSE "nil"
                     /\ fixPc' = IF cIdx < Len(cList) THEN fixPc ELSE "list"
                     /\ UNCHANGED bErr
                ELSE /\ FC_Fail(IF e = "nil" THEN "StillExists" ELSE e)
                     /\ UNCHANGED <<cIdx, fixPc>>
    /\ UNCHANGED <<cpkg, deploy, ods, crds, memPkg, cList, cMem, envActed,
                   probeSaw, fcEntryEmpty, odListed, osListed, crdIdx, pollerPc, ctxCancelled, managerPc, forceAdoption, bSteps>>
    /\ UNCHANGED <<cos, cosList, cosItems, cosSnapshot, fixIdx, fixPatched>>

\* Bootstrap, lines 95-97: fixMissingRevisionNumbers returned nil.
FixReturnedNil_ErrorIgnored(pc) == pc \in {"done", "failed"}

FixReturnedNil(pc) == pc = "done"

\* Bootstrap, lines 95-99, with updatePKOPackage: once the repair returned
\* nil, patch image and config of the ClusterPackage and return the result.
Boot_UpdatePKOPackage ==
    /\ bPc = "fix"
    /\ FixReturnedNil(fixPc)
    /\ \E e \in ClientWrite(cpkg.exists) :
         /\ bErr' = e
         /\ cpkg' = IF e = "nil" THEN [cpkg EXCEPT !.image = "new"] ELSE cpkg
    /\ bPc' = "returned"
    /\ bSteps' = bSteps \cup {"patch"}
    /\ UNCHANGED <<deploy, ods, crds, memPkg, crdIdx, pollerPc, ctxCancelled,
                   managerPc, forceAdoption, envActed, cList, cMem, cIdx, probeSaw, fcResult, fcEntryEmpty, odListed, osListed, cLog>>
    /\ UNCHANGED fvars

\* Bootstrap, lines 95-97: the repair returned an error, or panicked.
Boot_FixFailed ==
    /\ bPc = "fix"
    /\ fixPc \in {"failed", "panic"}
    /\ bPc' = IF fixPc = "panic" THEN "crashed" ELSE "returned"
    /\ bErr' = "Err"
    /\ UNCHANGED <<cpkg, deploy, ods, crds, memPkg, crdIdx, pollerPc,
                   ctxCancelled, managerPc, forceAdoption, envActed, bSteps,
                   cList, cMem, cIdx, probeSaw, fcResult, fcEntryEmpty, odListed, osListed, cLog>>
    /\ UNCHANGED fvars

\* selfBootstrap, lines 173-185: load and parse the bundle.
Self_Load ==
    /\ bPc = "self_load"
    /\ \/ /\ bPc' = "self_crds"
          /\ UNCHANGED bErr
       \/ /\ bPc' = "returned"
          /\ bErr' = "Err"
    /\ crdIdx' = 1
    /\ UNCHANGED <<cpkg, deploy, ods, crds, memPkg, pollerPc, ctxCancelled,
                   managerPc, forceAdoption, envActed, bSteps, cList, cMem, cIdx, probeSaw, fcResult, fcEntryEmpty, odListed, osListed, cLog>>
    /\ UNCHANGED fvars

\* ensureCRDs, line 277: an error of Create is returned unless it is
\* AlreadyExists.
EnsureCRDTolerated_OnlyNil(e) == e = "nil"

EnsureCRDTolerated(e) == e \in {"nil", "AlreadyExists"}

\* One iteration of the loop of ensureCRDs, lines 265-280.
Self_EnsureCRD ==
    /\ bPc = "self_crds"
    /\ LET name == BundleCRDs[crdIdx]
       IN  \E e \in ClientCreate(name \in crds) :
             IF EnsureCRDTolerated(e)
             THEN /\ crds' = crds \cup {name}
                  /\ IF crdIdx = Len(BundleCRDs)
                     THEN /\ bPc' = "self_create"
                          /\ bSteps' = bSteps \cup {"crds"}
                          /\ UNCHANGED crdIdx
                     ELSE /\ crdIdx' = crdIdx + 1
                          /\ UNCHANGED <<bPc, bSteps>>
                  /\ UNCHANGED bErr
             ELSE /\ bPc' = "returned"
                  /\ bErr' = e
                  /\ UNCHANGED <<crds, crdIdx, bSteps>>
    /\ UNCHANGED <<cpkg, deploy, ods, memPkg, pollerPc, ctxCancelled,
                   managerPc, forceAdoption, envActed, cList, cMem, cIdx, probeSaw, fcResult, fcEntryEmpty, odListed, osListed, cLog>>
    /\ UNCHANGED fvars

\* createPKOPackage, line 256: an error of Create is returned unless it is
\* AlreadyExists.
CreateTolerated_OnlyNil(e) == e = "nil"

CreateTolerated(e) == e \in {"nil", "AlreadyExists"}

\* The ClusterPackage createPKOPackage builds, lines 246-254.
NewPKOPackage ==
    [exists |-> TRUE, deleting |-> FALSE, finalizers |-> 0,
     available |-> FALSE, image |-> "new"]

\* createPKOPackage, lines 245-260, called on line 190.
Self_CreatePackage ==
    /\ bPc = "self_create"
    /\ \E e \in ClientCreate(cpkg.exists) :
         /\ createLog' = Append(createLog,
                [who |-> "self", e |-> e,
                 ret |-> IF CreateTolerated(e) THEN "nil" ELSE e])
         /\ IF CreateTolerated(e)
            THEN /\ cpkg' = IF e = "nil" THEN NewPKOPackage ELSE cpkg
                 /\ bPc' = "self_start"
                 /\ bSteps' = bSteps \cup {"create"}
                 /\ UNCHANGED bErr
            ELSE /\ bPc' = "returned"
                 /\ bErr' = e
                 /\ UNCHANGED <<cpkg, bSteps>>
    /\ UNCHANGED <<deploy, ods, crds, memPkg, crdIdx, pollerPc, ctxCancelled,
                   managerPc, forceAdoption, envActed, cList, cMem, cIdx, probeSaw, fcResult, fcEntryEmpty, odListed, osListed, cLog>>
    /\ UNCHANGED fvars
    /\ UNCHANGED <<peerPc, peerCrdIdx, peerErr>>

\* selfBootstrap, lines 195-204: start the poller, set PKO_FORCE_ADOPTION
\* and call runManager.
Self_Start ==
    /\ bPc = "self_start"
    /\ pollerPc' = "polling"
    /\ \/ /\ forceAdoption' = TRUE
          /\ managerPc' = "running"
          /\ bPc' = "manager"
          /\ bSteps' = bSteps \cup {"manager"}
          /\ UNCHANGED bErr
       \/ /\ bPc' = "returned"
          /\ bErr' = "Err"
          /\ UNCHANGED <<forceAdoption, managerPc, bSteps>>
    /\ UNCHANGED <<cpkg, deploy, ods, crds, memPkg, crdIdx, ctxCancelled,
                   envActed, cList, cMem, cIdx, probeSaw, fcResult, fcEntryEmpty, odListed, osListed, cLog>>
    /\ UNCHANGED fvars

\* One poll of cancelWhenPackageAvailable, lines 211-221, that ends the
\* wait: isPackageAvailable reports an error, which panics, or reports that
\* the ClusterPackage is available, which cancels the manager's context.
Poller_Poll ==
    /\ pollerPc = "polling"
    /\ bPc \notin {"returned", "crashed"}
    /\ \E e \in ClientGet(cpkg.exists) :
         IF e # "nil"
         THEN /\ pollerPc' = "panic"
              /\ bPc' = "crashed"
              /\ bErr' = e
              /\ UNCHANGED ctxCancelled
         ELSE /\ cpkg.available
              /\ pollerPc' = "done"
              /\ ctxCancelled' = TRUE
              /\ UNCHANGED <<bPc, bErr>>
    /\ UNCHANGED <<cpkg, deploy, ods, crds, memPkg, crdIdx, managerPc,
                   forceAdoption, envActed, bSteps, cList, cMem, cIdx, probeSaw, fcResult, fcEntryEmpty, odListed, osListed, cLog>>
    /\ UNCHANGED fvars

\* The manager started by runManager reconciles the ClusterPackage until it
\* and the Deployment it rolls out are available.
Manager_Reconcile ==
    /\ managerPc = "running"
    /\ bPc = "manager"
    /\ cpkg.exists /\ ~cpkg.deleting /\ ~cpkg.available
    /\ cpkg' = [cpkg EXCEPT !.available = TRUE]
    /\ deploy' = "True"
    /\ UNCHANGED <<ods, crds, memPkg, bPc, bErr, crdIdx, pollerPc,
                   ctxCancelled, managerPc, forceAdoption, envActed, bSteps,
                   cList, cMem, cIdx, probeSaw, fcResult, fcEntryEmpty, odListed, osListed, cLog>>
    /\ UNCHANGED fvars

\* runManager returns (line 204): with an error of its own, or because its
\* context was cancelled.
Self_ManagerReturns ==
    /\ bPc = "manager"
    /\ managerPc = "running"
    /\ \E e \in IF ctxCancelled THEN {"nil", "Err"} ELSE {"Err"} :
         bErr' = e
    /\ managerPc' = "returned"
    /\ bPc' = "returned"
    /\ UNCHANGED <<cpkg, deploy, ods, crds, memPkg, crdIdx, pollerPc,
                   ctxCancelled, forceAdoption, envActed, bSteps, cList, cMem, cIdx, probeSaw, fcResult, fcEntryEmpty, odListed, osListed, cLog>>
    /\ UNCHANGED fvars

\* Another controller adds a finalizer to an object that is not in deletion.
Env_AddFinalizer ==
    /\ ~envActed
    /\ bPc \notin {"start", "returned", "crashed"}
    /\ envActed' = TRUE
    /\ \/ /\ cpkg.exists /\ ~cpkg.deleting
          /\ cpkg' = [cpkg EXCEPT !.finalizers = @ + 1]
          /\ UNCHANGED <<ods, cos>>
       \/ /\ \E n \in ODNames :
               /\ ods[n].exists /\ ~ods[n].deleting
               /\ ods' = [ods EXCEPT ![n].finalizers = @ + 1]
          /\ UNCHANGED <<cpkg, cos>>
       \/ /\ \E n \in COSNames :
               /\ cos[n].exists /\ ~cos[n].deleting
               /\ cos' = [cos EXCEPT ![n].finalizers = @ + 1]
          /\ UNCHANGED <<cpkg, ods>>
    /\ UNCHANGED <<deploy, crds, memPkg, bPc, bErr, crdIdx, pollerPc,
                   ctxCancelled, managerPc, forceAdoption, bSteps, cList, cMem, cIdx, probeSaw, fcResult, fcEntryEmpty, odListed, osListed, cLog>>
    /\ UNCHANGED <<cosList, cosItems, cosSnapshot, fixPc, fixIdx, fixPatched>>

\* The controller holding a finalizer of an object in deletion finishes its
\* teardown and releases the finalizer.
Env_ReleaseFinalizer ==
    /\ ~envActed
    /\ bPc \notin {"start", "returned", "crashed"}
    /\ envActed' = TRUE
    /\ \/ /\ cpkg.exists /\ cpkg.deleting
          /\ cpkg' = StoreSetFinalizers(cpkg, cpkg.finalizers - 1,
                                        NoClusterPackage)
          /\ UNCHANGED <<ods, cos>>
       \/ /\ \E n \in ODNames :
               /\ ods[n].exists /\ ods[n].deleting
               /\ ods' = [ods EXCEPT
                            ![n] = StoreSetFinalizers(@, @.finalizers - 1, NoOD)]
          /\ UNCHANGED <<cpkg, cos>>
       \/ /\ \E n \in COSNames :
               /\ cos[n].exists /\ cos[n].deleting
               /\ cos' = [cos EXCEPT
                            ![n] = StoreSetFinalizers(@, @.finalizers - 1, NoCOS)]
          /\ UNCHANGED <<cpkg, ods>>
    /\ UNCHANGED <<deploy, crds, memPkg, bPc, bErr, crdIdx, pollerPc,
                   ctxCancelled, managerPc, forceAdoption, bSteps, cList, cMem, cIdx, probeSaw, fcResult, fcEntryEmpty, odListed, osListed, cLog>>
    /\ UNCHANGED <<cosList, cosItems, cosSnapshot, fixPc, fixIdx, fixPatched>>

(***************************************************************************)
(* Part 4.  The process supervisor restarting a failed Bootstrap           *)
(***************************************************************************)

VARIABLES
    restarted,    \* the supervisor restarted the process after a failed run
    leftBehind    \* the owned objects an aborted forced cleanup left behind

tvars == <<restarted, leftBehind>>

\* The ClusterObjectDeployments and ClusterObjectSets in the store.
OwnedInStore ==
    {<<"od", n>> : n \in {m \in ODNames : ods[m].exists}} \cup
    {<<"os", n>> : n \in {m \in COSNames : cos[m].exists}}

\* Bootstrap returned an error (or the process panicked), the process exits,
\* and the supervisor starts it again: Bootstrap runs from its first line
\* against the store as the failed run left it.
Boot_Restart ==
    /\ bPc \in {"returned", "crashed"}
    /\ bErr # "nil"
    /\ ~restarted
    /\ restarted' = TRUE
    /\ leftBehind' = IF fcResult = "error" THEN OwnedInStore ELSE {}
    /\ memPkg' = [finalizers |-> 0]
    /\ bPc' = "start"
    /\ bErr' = "nil"
    /\ cList' = <<>>
    /\ cMem' = <<>>
    /\ cIdx' = 1
    /\ crdIdx' = 1
    /\ pollerPc' = "off"
    /\ ctxCancelled' = FALSE
    /\ managerPc' = "off"
    /\ forceAdoption' = FALSE
    /\ probeSaw' = "none"
    /\ fcResult' = "none"
    /\ fcEntryEmpty' = FALSE
    /\ odListed' = {}
    /\ osListed' = {}
    /\ cLog' = <<>>
    /\ bSteps' = {}
    /\ cosList' = <<>>
    /\ cosItems' = <<>>
    /\ cosSnapshot' = <<>>
    /\ fixPc' = "idle"
    /\ fixIdx' = 1
    /\ fixPatched' = {}
    /\ UNCHANGED <<cpkg, deploy, ods, crds, cos, envActed>>

(***************************************************************************)
(* Part 5.  Bootstrapper.Bootstrap of package bootstrap                    *)
(***************************************************************************)

VARIABLES
    nPc,             \* position of the Bootstrap call
    nErr,            \* the error Bootstrap returned
    nCalls,          \* what Bootstrap called so far, in call order
    nProbeGet,       \* outcome of the Get of needsBootstrap
    nProbeDeploy,    \* the Deployment needsBootstrap read
    nNeeds,          \* what needsBootstrap returned
    nPollerPc,       \* position of the goroutine cancelWhenPackageAvailable
    nTick,           \* flips with every poll
    nLastPoll,       \* how the latest poll ended
    nCancelCalled,   \* the poller called cancel()
    parentCancelled, \* the context given to Bootstrap was cancelled
    nManagerPc,      \* position of runManager
    nMgrFailed,      \* runManager returned an error
    nForceAdoption   \* the environment variable for forced adoption is set

nvars == <<nPc, nErr, nCalls, nProbeGet, nProbeDeploy, nNeeds, nPollerPc,
           nTick, nLastPoll, nCancelCalled, parentCancelled, nManagerPc,
           nMgrFailed, nForceAdoption>>

\* What bootstrapper.Bootstrap of the manager binary keeps for a run.
bRun == <<ods, memPkg, bPc, bErr, cList, cMem, cIdx, crdIdx, pollerPc,
          ctxCancelled, managerPc, forceAdoption, envActed, probeSaw,
          fcResult, fcEntryEmpty, odListed, osListed, cLog, bSteps>>

NoNeeds == [need |-> FALSE, err |-> "none"]

\* needsBootstrap, lines 272-287, for a Get that ended with e on a
\* Deployment whose Available condition is d.
needsBootstrap_OnlyWhenAbsent(e, d) ==
    IF e = "NotFound" THEN [need |-> TRUE, err |-> "nil"]
    ELSE IF e # "nil" THEN [need |-> FALSE, err |-> e]
    ELSE [need |-> FALSE, err |-> "nil"]

needsBootstrap(e, d) ==
    IF e = "NotFound" THEN [need |-> TRUE, err |-> "nil"]
    ELSE IF e # "nil" THEN [need |-> FALSE, err |-> e]
    ELSE IF d = "True" THEN [need |-> FALSE, err |-> "nil"]
    ELSE [need |-> TRUE, err |-> "nil"]

\* Bootstrap, lines 241-247: what follows the probe.
AfterProbe_IgnoresAnswer(r) ==
    IF r.err # "nil" THEN "error" ELSE "bootstrap"

AfterProbe(r) ==
    IF r.err # "nil" THEN "error"
    ELSE IF ~r.need THEN "done"
    ELSE "bootstrap"

\* The context bootstrap derives with context.WithCancel is done once its
\* cancel was called or its parent is done; its Err() is then Canceled.
CtxDone == nCancelCalled \/ parentCancelled

CtxErr == IF CtxDone THEN "Canceled" ELSE "nil"

\* cancelWhenPackageAvailable with isPackageAvailable, lines 294-304 and
\* 311-324, for one round of wait.PollImmediateUntilWithContext.  The wait
\* ends with an error when its context is done and with the error of the
\* condition when the Get failed, and any error ends in panic(err); it ends
\* with nil when the condition reports the ClusterPackage available, and
\* cancel() follows; otherwise the wait goes on.
PollOutcome_CancelsOnAnyRead(done, e, available) ==
    IF done THEN "panic"
    ELSE IF e # "nil" THEN "panic"
    ELSE "cancel"

PollOutcome_RetriesOnError(done, e, available) ==
    IF done THEN "panic"
    ELSE IF e # "nil" THEN "again"
    ELSE IF available THEN "cancel"
    ELSE "again"

PollOutcome_NeverConverges(done, e, available) ==
    IF done THEN "panic"
    ELSE IF e # "nil" THEN "panic"
    ELSE "again"

PollOutcome(done, e, available) ==
    IF done THEN "panic"
    ELSE IF e # "nil" THEN "panic"
    ELSE IF available THEN "cancel"
    ELSE "again"

\* Why the round ended as it did.
PollCause(done, e, available) ==
    IF done THEN "ctxdone"
    ELSE IF e # "nil" THEN "error"
    ELSE IF available THEN "available"
    ELSE "notyet"

NInit ==
    /\ cpkg \in
         {NoClusterPackage} \cup
         { [exists |-> TRUE, deleting |-> FALSE, finalizers |-> 0,
            available |-> a, image |-> "old"] : a \in BOOLEAN }
    /\ deploy \in DeployStates
    /\ crds \in {{}, {BundleCRDs[i] : i \in DOMAIN BundleCRDs}}
    /\ crds = {} => ~cpkg.exists
    /\ ods = [n \in ODNames |-> NoOD]
    /\ memPkg = [finalizers |-> 0]
    /\ bPc = "idle"
    /\ bErr = "nil"
    /\ cList = <<>>
    /\ cMem = <<>>
    /\ cIdx = 1
    /\ crdIdx = 1
    /\ pollerPc = "off"
    /\ ctxCancelled = FALSE
    /\ managerPc = "off"
    /\ forceAdoption = FALSE
    /\ envActed = FALSE
    /\ probeSaw = "none"
    /\ fcResult = "none"
    /\ fcEntryEmpty = FALSE
    /\ odListed = {}
    /\ osListed = {}
    /\ cLog = <<>>
    /\ bSteps = {}
    /\ nPc = "start"
    /\ nErr = "nil"
    /\ nCalls = <<>>
    /\ nProbeGet = "none"
    /\ nProbeDeploy = "none"
    /\ nNeeds = NoNeeds
    /\ nPollerPc = "off"
    /\ nTick = FALSE
    /\ nLastPoll = "none"
    /\ nCancelCalled = FALSE
    /\ parentCancelled = FALSE
    /\ nManagerPc = "off"
    /\ nMgrFailed = FALSE
    /\ nForceAdoption = FALSE

\* Bootstrap, lines 236-238: b.init installs the CustomResourceDefinitions of
\* the bundle and makes sure the ClusterPackage exists.
N_Init ==
    /\ nPc = "start"
    /\ nCalls' = Append(nCalls, "init")
    /\ \/ /\ crds' = {BundleCRDs[i] : i \in DOMAIN BundleCRDs}
          /\ cpkg' = IF cpkg.exists THEN cpkg
                     ELSE [exists |-> TRUE, deleting |-> FALSE,
                           finalizers |-> 0, available |-> FALSE,
                           image |-> "new"]
          /\ nPc' = "probe"
          /\ UNCHANGED nErr
       \/ /\ nPc' = "returned"
          /\ nErr' = "Err"
          /\ UNCHANGED <<crds, cpkg>>
    /\ UNCHANGED <<deploy, bRun, nProbeGet, nProbeDeploy, nNeeds, nPollerPc,
                   nTick, nLastPoll, nCancelCalled, parentCancelled,
                   nManagerPc, nMgrFailed, nForceAdoption>>

\* Bootstrap, lines 240-246, with needsBootstrap: probe the Deployment and
\* return, or go on to bootstrap.
N_Probe ==
    /\ nPc = "probe"
    /\ nCalls' = Append(nCalls, "needsBootstrap")
    /\ \E e \in ClientGet(deploy # "absent") :
         LET r == needsBootstrap(e, deploy)
         IN  /\ nProbeGet' = e
             /\ nProbeDeploy' = deploy
             /\ nNeeds' = r
             /\ nPc' = IF AfterProbe(r) = "bootstrap" THEN "bootstrap"
                       ELSE "returned"
             /\ nErr' = IF AfterProbe(r) = "error" THEN r.err ELSE "nil"
    /\ UNCHANGED <<cpkg, deploy, crds, bRun, nPollerPc, nTick, nLastPoll,
                   nCancelCalled, parentCancelled, nManagerPc, nMgrFailed,
                   nForceAdoption>>

\* bootstrap, lines 252-260: derive the cancellable context, start the
\* poller, set the environment variable and call runManager.
N_Bootstrap ==
    /\ nPc = "bootstrap"
    /\ nPollerPc' = "polling"
    /\ \/ /\ nForceAdoption' = TRUE
          /\ nManagerPc' = "running"
          /\ nPc' = "manager"
          /\ nCalls' = nCalls \o <<"poller", "setenv", "runManager">>
          /\ UNCHANGED nErr
       \/ /\ nPc' = "returned"
          /\ nErr' = "Err"
          /\ nCalls' = nCalls \o <<"poller", "setenv">>
          /\ UNCHANGED <<nForceAdoption, nManagerPc>>
    /\ UNCHANGED <<cpkg, deploy, crds, bRun, nProbeGet, nProbeDeploy, nNeeds,
                   nTick, nLastPoll, nCancelCalled, parentCancelled,
                   nMgrFailed>>

\* One round of the wait in cancelWhenPackageAvailable, lines 294-304: the
\* round ends the wait with a panic or with cancel(), or the wait goes on.
N_Poll ==
    /\ nPollerPc = "polling"
    /\ nPc \notin {"returned", "aborted"}
    /\ nTick' = ~nTick
    /\ \E e \in ClientGet(cpkg.exists) :
         LET o == PollOutcome(CtxDone, e, cpkg.available)
         IN  /\ nLastPoll' = PollCause(CtxDone, e, cpkg.available)
             /\ nPollerPc' = CASE o = "panic" -> "panic"
                               [] o = "cancel" -> "done"
                               [] OTHER -> "polling"
             /\ nCancelCalled' = (o = "cancel")
             /\ nPc' = IF o = "panic" THEN "aborted" ELSE nPc
    /\ UNCHANGED <<cpkg, deploy, crds, bRun, nErr, nCalls, nProbeGet,
                   nProbeDeploy, nNeeds, parentCancelled, nManagerPc,
                   nMgrFailed, nForceAdoption>>

\* runManager returns because its context is done (lines 260-263).
N_ManagerReturns ==
    /\ nPc = "manager"
    /\ nManagerPc = "running"
    /\ CtxDone
    /\ \E e \in {"nil", "Err"} :
         /\ nErr' = e
         /\ nMgrFailed' = (e # "nil")
    /\ nManagerPc' = "returned"
    /\ nPc' = "returned"
    /\ UNCHANGED <<cpkg, deploy, crds, bRun, nCalls, nProbeGet, nProbeDeploy,
                   nNeeds, nPollerPc, nTick, nLastPoll, nCancelCalled,
                   parentCancelled, nForceAdoption>>

\* runManager fails by itself (lines 260-262).
N_ManagerFails ==
    /\ nPc = "manager"
    /\ nManagerPc = "running"
    /\ ~CtxDone
    /\ nErr' = "Err"
    /\ nMgrFailed' = TRUE
    /\ nManagerPc' = "returned"
    /\ nPc' = "returned"
    /\ UNCHANGED <<cpkg, deploy, crds, bRun, nCalls, nProbeGet, nProbeDeploy,
                   nNeeds, nPollerPc, nTick, nLastPoll, nCancelCalled,
                   parentCancelled, nForceAdoption>>

\* The manager started by runManager reconciles the ClusterPackage until it
\* and the Deployment it rolls out are available.
N_PackageAvailable ==
    /\ nPc = "manager"
    /\ nManagerPc = "running"
    /\ cpkg.exists /\ ~cpkg.available
    /\ cpkg' = [cpkg EXCEPT !.available = TRUE]
    /\ deploy' = "True"
    /\ UNCHANGED <<crds, bRun, nvars>>

\* The caller cancels the context it gave to Bootstrap.
N_ParentCancel ==
    /\ nPc \notin {"returned", "aborted"}
    /\ ~parentCancelled
    /\ parentCancelled' = TRUE
    /\ UNCHANGED <<cpkg, deploy, crds, bRun, nPc, nErr, nCalls, nProbeGet,
                   nProbeDeploy, nNeeds, nPollerPc, nTick, nLastPoll,
                   nCancelCalled, nManagerPc, nMgrFailed, nForceAdoption>>

(***************************************************************************)
(* Part 6.  A second Bootstrap run racing through the self-bootstrap       *)
(***************************************************************************)

\* Bootstrap, lines 84-108, in the second run.
Peer_GetPackage ==
    /\ peerPc = "start"
    /\ \E e \in IF crds = {} THEN {"NoMatch", "Err"} ELSE ClientGet(cpkg.exists) :
         IF e = "nil"
         THEN /\ peerPc' = "update"
              /\ UNCHANGED peerErr
         ELSE IF e \in {"NotFound", "NoMatch"}
         THEN /\ peerPc' = "self_load"
              /\ UNCHANGED peerErr
         ELSE /\ peerPc' = "returned"
              /\ peerErr' = e
    /\ UNCHANGED <<peerCrdIdx, createLog>>
    /\ UNCHANGED <<bvars, fvars>>

\* selfBootstrap, lines 173-185, in the second run.
Peer_Load ==
    /\ peerPc = "self_load"
    /\ \/ /\ peerPc' = "self_crds"
          /\ UNCHANGED peerErr
       \/ /\ peerPc' = "returned"
          /\ peerErr' = "Err"
    /\ peerCrdIdx' = 1
    /\ UNCHANGED createLog
    /\ UNCHANGED <<bvars, fvars>>

\* One iteration of the loop of ensureCRDs, lines 265-280, in the second run.
Peer_EnsureCRD ==
    /\ peerPc = "self_crds"
    /\ LET name == BundleCRDs[peerCrdIdx]
       IN  \E e \in ClientCreate(name \in crds) :
             IF EnsureCRDTolerated(e)
             THEN /\ crds' = crds \cup {name}
                  /\ IF peerCrdIdx = Len(BundleCRDs)
                     THEN /\ peerPc' = "self_create"
                          /\ UNCHANGED peerCrdIdx
                     ELSE /\ peerCrdIdx' = peerCrdIdx + 1
                          /\ UNCHANGED peerPc
                  /\ UNCHANGED peerErr
             ELSE /\ peerPc' = "returned"
                  /\ peerErr' = e
                  /\ UNCHANGED <<crds, peerCrdIdx>>
    /\ UNCHANGED createLog
    /\ UNCHANGED <<cpkg, deploy, ods, bRun>>
    /\ UNCHANGED fvars

\* createPKOPackage, lines 245-260, in the second run.
Peer_CreatePackage ==
    /\ peerPc = "self_create"
    /\ \E e \in ClientCreate(cpkg.exists) :
         /\ createLog' = Append(createLog,
                [who |-> "peer", e |-> e,
                 ret |-> IF CreateTolerated(e) THEN "nil" ELSE e])
         /\ IF CreateTolerated(e)
            THEN /\ cpkg' = IF e = "nil" THEN NewPKOPackage ELSE cpkg
                 /\ peerPc' = "self_start"
                 /\ UNCHANGED peerErr
            ELSE /\ peerPc' = "returned"
                 /\ peerErr' = e
                 /\ UNCHANGED cpkg
    /\ UNCHANGED peerCrdIdx
    /\ UNCHANGED <<deploy, ods, crds, bRun>>
    /\ UNCHANGED fvars

\* selfBootstrap, lines 195-204, in the second run: runManager is called.
Peer_Start ==
    /\ peerPc = "self_start"
    /\ peerPc' = "manager"
    /\ UNCHANGED <<peerCrdIdx, peerErr, createLog>>
    /\ UNCHANGED <<bvars, fvars>>

\* The manager of the second run takes the ClusterPackage under its control
\* and puts its finalizer on it.
Peer_ManagerReconcile ==
    /\ peerPc = "manager"
    /\ cpkg.exists /\ ~cpkg.deleting /\ cpkg.finalizers = 0
    /\ cpkg' = [cpkg EXCEPT !.finalizers = 1]
    /\ UNCHANGED pvars
    /\ UNCHANGED <<deploy, ods, crds, bRun>>
    /\ UNCHANGED fvars

(***************************************************************************)
(* Specifications                                                          *)
(***************************************************************************)

vars == <<rvars, fvars, bvars, tvars, nvars, pvars>>

\* No Reconcile call is running.
RIdle ==
    RInit /\ pkgStore = NoPackage /\ ~recorder

\* No repair is running and the store holds no ClusterObjectSet.
FIdle ==
    /\ cos = [n \in COSNames |-> NoCOS]
    /\ cosList = <<>>
    /\ cosItems = <<>>
    /\ cosSnapshot = <<>>
    /\ fixPc = "idle"
    /\ fixIdx = 1
    /\ fixPatched = {}

\* No Bootstrap call is running and the store holds nothing of its.
BIdle ==
    /\ cpkg = NoClusterPackage
    /\ deploy = "absent"
    /\ ods = [n \in ODNames |-> NoOD]
    /\ crds = {}
    /\ memPkg = [finalizers |-> 0]
    /\ bPc = "idle"
    /\ bErr = "nil"
    /\ cList = <<>>
    /\ cMem = <<>>
    /\ cIdx = 1
    /\ crdIdx = 1
    /\ pollerPc = "off"
    /\ ctxCancelled = FALSE
    /\ managerPc = "off"
    /\ forceAdoption = FALSE
    /\ envActed = FALSE
    /\ probeSaw = "none"
    /\ fcResult = "none"
    /\ fcEntryEmpty = FALSE
    /\ odListed = {}
    /\ osListed = {}
    /\ cLog = <<>>
    /\ bSteps = {}

\* No Bootstrap call of package bootstrap is running.
NIdle ==
    /\ nPc = "idle"
    /\ nErr = "nil"
    /\ nCalls = <<>>
    /\ nProbeGet = "none"
    /\ nProbeDeploy = "none"
    /\ nNeeds = NoNeeds
    /\ nPollerPc = "off"
    /\ nTick = FALSE
    /\ nLastPoll = "none"
    /\ nCancelCalled = FALSE
    /\ parentCancelled = FALSE
    /\ nManagerPc = "off"
    /\ nMgrFailed = FALSE
    /\ nForceAdoption = FALSE

\* No second Bootstrap run.
PIdle ==
    /\ peerPc = "idle"
    /\ peerCrdIdx = 1
    /\ peerErr = "nil"
    /\ createLog = <<>>

\* The process was not restarted.
TIdle ==
    /\ restarted = FALSE
    /\ leftBehind = {}

RNext ==
    \/ Reconcile_Get /\ UNCHANGED <<fvars, bvars, tvars, nvars, pvars>>
    \/ Reconcile_HandleDeletion /\ UNCHANGED <<fvars, bvars, tvars, nvars, pvars>>
    \/ Reconcile_Sub /\ UNCHANGED <<fvars, bvars, tvars, nvars, pvars>>
    \/ Reconcile_Finish /\ UNCHANGED <<fvars, bvars, tvars, nvars, pvars>>
    \/ Reconcile_Next /\ UNCHANGED <<fvars, bvars, tvars, nvars, pvars>>
    \/ User_DeletePackage /\ UNCHANGED <<fvars, bvars, tvars, nvars, pvars>>
    \/ User_CreatePackage /\ UNCHANGED <<fvars, bvars, tvars, nvars, pvars>>

FNext ==
    \/ Fix_List /\ UNCHANGED <<rvars, bvars, tvars, nvars, pvars>>
    \/ Fix_Step /\ UNCHANGED <<rvars, bvars, tvars, nvars, pvars>>

BNext ==
    \/ Boot_GetPackage /\ UNCHANGED <<rvars, tvars, nvars, pvars>>
    \/ Boot_NukeIfNeeded /\ UNCHANGED <<rvars, tvars, nvars, pvars>>
    \/ FC_DeletePackage /\ UNCHANGED <<rvars, tvars, nvars, pvars>>
    \/ FC_StripPackage /\ UNCHANGED <<rvars, tvars, nvars, pvars>>
    \/ FC_VerifyPackage /\ UNCHANGED <<rvars, tvars, nvars, pvars>>
    \/ FC_ListODs /\ UNCHANGED <<rvars, tvars, nvars, pvars>>
    \/ FC_DeleteOD /\ UNCHANGED <<rvars, tvars, nvars, pvars>>
    \/ FC_StripOD /\ UNCHANGED <<rvars, tvars, nvars, pvars>>
    \/ FC_VerifyOD /\ UNCHANGED <<rvars, tvars, nvars, pvars>>
    \/ FC_ListOSs /\ UNCHANGED <<rvars, tvars, nvars, pvars>>
    \/ FC_DeleteOS /\ UNCHANGED <<rvars, tvars, nvars, pvars>>
    \/ FC_StripOS /\ UNCHANGED <<rvars, tvars, nvars, pvars>>
    \/ FC_VerifyOS /\ UNCHANGED <<rvars, tvars, nvars, pvars>>
    \/ Fix_List /\ UNCHANGED <<rvars, bvars, tvars, nvars, pvars>>
    \/ Fix_Step /\ UNCHANGED <<rvars, bvars, tvars, nvars, pvars>>
    \/ Boot_UpdatePKOPackage /\ UNCHANGED <<rvars, tvars, nvars, pvars>>
    \/ Boot_FixFailed /\ UNCHANGED <<rvars, tvars, nvars, pvars>>
    \/ Self_Load /\ UNCHANGED <<rvars, tvars, nvars, pvars>>
    \/ Self_EnsureCRD /\ UNCHANGED <<rvars, tvars, nvars, pvars>>
    \/ Self_CreatePackage /\ UNCHANGED <<rvars, tvars, nvars>>
    \/ Self_Start /\ UNCHANGED <<rvars, tvars, nvars, pvars>>
    \/ Poller_Poll /\ UNCHANGED <<rvars, tvars, nvars, pvars>>
    \/ Manager_Reconcile /\ UNCHANGED <<rvars, tvars, nvars, pvars>>
    \/ Self_ManagerReturns /\ UNCHANGED <<rvars, tvars, nvars, pvars>>
    \/ Env_AddFinalizer /\ UNCHANGED <<rvars, tvars, nvars, pvars>>
    \/ Env_ReleaseFinalizer /\ UNCHANGED <<rvars, tvars, nvars, pvars>>

InitReconcile == RInit /\ FIdle /\ BIdle /\ TIdle /\ NIdle /\ PIdle

\* The reconciliation engine serving one Package.
SpecReconcile == InitReconcile /\ [][RNext]_vars

InitFix == FInit /\ RIdle /\ BIdle /\ TIdle /\ NIdle /\ PIdle

\* One run of the revision repair on any snapshot.
SpecFix == InitFix /\ [][FNext]_vars

InitBootstrap == BInit /\ RIdle /\ TIdle /\ NIdle /\ PIdle

\* One run of Bootstrap on any installation it may find.
SpecBootstrap == InitBootstrap /\ [][BNext]_vars

BRetryNext ==
    \/ BNext
    \/ Boot_Restart /\ UNCHANGED <<rvars, nvars, pvars>>

InitBootstrapRetry == BInit /\ RIdle /\ TIdle /\ NIdle /\ PIdle

\* Bootstrap, restarted once by the supervisor when it fails.
SpecBootstrapRetry == InitBootstrapRetry /\ [][BRetryNext]_vars

RaceNext ==
    \/ BNext
    \/ Peer_GetPackage /\ UNCHANGED <<rvars, tvars, nvars>>
    \/ Peer_Load /\ UNCHANGED <<rvars, tvars, nvars>>
    \/ Peer_EnsureCRD /\ UNCHANGED <<rvars, tvars, nvars>>
    \/ Peer_CreatePackage /\ UNCHANGED <<rvars, tvars, nvars>>
    \/ Peer_Start /\ UNCHANGED <<rvars, tvars, nvars>>
    \/ Peer_ManagerReconcile /\ UNCHANGED <<rvars, tvars, nvars>>

\* Two runs start while the ClusterPackage is absent.
RaceInit ==
    /\ BInit
    /\ ~cpkg.exists
    /\ peerPc = "start"
    /\ peerCrdIdx = 1
    /\ peerErr = "nil"
    /\ createLog = <<>>

InitCreateRace == RaceInit /\ RIdle /\ TIdle /\ NIdle

\* Two Bootstrap runs racing through the self-bootstrap.
SpecCreateRace == InitCreateRace /\ [][RaceNext]_vars

NNext ==
    \/ N_Init /\ UNCHANGED <<rvars, fvars, tvars, pvars>>
    \/ N_Probe /\ UNCHANGED <<rvars, fvars, tvars, pvars>>
    \/ N_Bootstrap /\ UNCHANGED <<rvars, fvars, tvars, pvars>>
    \/ N_Poll /\ UNCHANGED <<rvars, fvars, tvars, pvars>>
    \/ N_ManagerReturns /\ UNCHANGED <<rvars, fvars, tvars, pvars>>
    \/ N_ManagerFails /\ UNCHANGED <<rvars, fvars, tvars, pvars>>
    \/ N_PackageAvailable /\ UNCHANGED <<rvars, fvars, tvars, pvars>>
    \/ N_ParentCancel /\ UNCHANGED <<rvars, fvars, tvars, pvars>>

InitBootstrapper == NInit /\ RIdle /\ FIdle /\ TIdle /\ PIdle

\* One run of Bootstrapper.Bootstrap on any installation it may find.
SpecBootstrapper == InitBootstrapper /\ [][NNext]_vars

\* The Go scheduler runs the Bootstrap call and the poller goroutine, the
\* timer of the wait fires every interval, and a manager whose context is
\* done shuts down and returns.
FairSpecBootstrapper ==
    /\ InitBootstrapper
    /\ [][NNext]_vars
    /\ WF_vars(N_Init /\ UNCHANGED <<rvars, fvars, tvars, pvars>>)
    /\ WF_vars(N_Probe /\ UNCHANGED <<rvars, fvars, tvars, pvars>>)
    /\ WF_vars(N_Bootstrap /\ UNCHANGED <<rvars, fvars, tvars, pvars>>)
    /\ WF_vars(N_Poll /\ UNCHANGED <<rvars, fvars, tvars, pvars>>)
    /\ WF_vars(N_ManagerReturns /\ UNCHANGED <<rvars, fvars, tvars, pvars>>)

(***************************************************************************)
(* Claims about GenericPackageController.Reconcile                         *)
(***************************************************************************)

\* The loaded Package carries a deletion timestamp.
LoadedInDeletion == rLoaded /\ pkg.deleting

\* A sub-reconciler call that lets the chain go on: empty result, no error.
Continues(o) == o.res = "zero" /\ o.err = "nil"

\* C1: a Reconcile call that loaded a Package with a non-zero deletion
\* timestamp invokes no sub-reconciler and does not run the status update;
\* when it has returned, it has run the deletion-path cleanup and nothing else.
C1_DeletionSkipsForwardChain ==
    LoadedInDeletion =>
        /\ outcomes = <<>>
        /\ ~statusUpdateRan
        /\ rPc \in {"deletion", "returned"}
        /\ (rPc = "returned" => deletionRan)

\* C1 witness: a call on a Package in deletion has returned after the cleanup.
C1_Witness ==
    LoadedInDeletion /\ rPc = "returned" /\ deletionRan /\ storeWrites > 0

\* C2: within one Reconcile the sub-reconcilers are invoked in list order,
\* number i only after all before it returned an empty result and no error,
\* and the chain stops at the first non-empty result or error.
C2_ChainInOrderUntilFirstStop ==
    /\ \A k \in 1..Len(outcomes) : outcomes[k].idx = k
    /\ \A k \in 1..(Len(outcomes) - 1) : Continues(outcomes[k])
    /\ Len(outcomes) <= NumReconcilers
    /\ (rPc = "chain" =>
          /\ rIdx = Len(outcomes) + 1
          /\ \A k \in 1..Len(outcomes) : Continues(outcomes[k]))
    /\ (rPc \in {"afterchain", "returned"} /\ rLoaded /\ ~pkg.deleting =>
          /\ Len(outcomes) >= 1
          /\ (Len(outcomes) < NumReconcilers =>
                ~Continues(outcomes[Len(outcomes)])))

\* C2 witness: the first sub-reconciler returned a non-empty result and the
\* call returned without invoking the second.
C2_Witness ==
    /\ rPc = "returned"
    /\ Len(outcomes) = 1
    /\ outcomes[1].res = "requeue"
    /\ outcomes[1].err = "nil"

\* C3 as stated: the status step runs only if no sub-reconciler returned a
\* non-empty result and none returned an error.
C3_StatusOnlyIfChainNotStopped ==
    statusUpdateRan => \A k \in 1..Len(outcomes) : Continues(outcomes[k])

\* C3 amended: the status step runs exactly when no sub-reconciler returned an
\* error; a non-empty result without an error stops the chain but the status
\* step still runs.
C3_StatusUnlessChainErrored ==
    /\ statusUpdateRan => \A k \in 1..Len(outcomes) : outcomes[k].err = "nil"
    /\ (rPc = "returned" /\ outcomes # <<>> =>
          (statusUpdateRan <=>
             \A k \in 1..Len(outcomes) : outcomes[k].err = "nil"))

\* C3 witness: the status step ran although a sub-reconciler stopped the chain
\* with a non-empty result.
C3_Witness ==
    /\ statusUpdateRan
    /\ Len(outcomes) = 1
    /\ outcomes[1].res = "requeue"

(***************************************************************************)
(* Claims about fixMissingRevisionNumbers                                  *)
(***************************************************************************)

\* The largest number of a set of naturals, 0 for the empty set.
MaxOf(S) ==
    IF S = {} THEN 0 ELSE CHOOSE m \in S : \A x \in S : x <= m

\* The revision the snapshot holds for a name, 0 for a name it does not hold.
SnapshotRevision(p) ==
    IF p \in DOMAIN cosSnapshot THEN cosSnapshot[p].revision ELSE 0

\* The object was listed with revision 0, a previous reference and phase
\* Pending.
StuckInSnapshot(n) ==
    /\ cosSnapshot[n].revision = 0
    /\ cosSnapshot[n].previous # {}
    /\ cosSnapshot[n].phase = "Pending"

\* The repair ran to its end without an error from the store.
FixEnded == fixPc \in {"done", "panic"}

\* C4: for every snapshot, the repair sets each stuck object's revision to the
\* maximum revision among its previous references plus one, and neither
\* patches nor changes any other object.
C4_RepairAssignsMaxPreviousPlusOne ==
    FixEnded =>
        \A n \in DOMAIN cosSnapshot :
            IF StuckInSnapshot(n)
            THEN /\ cosItems[n].revision =
                      MaxOf({SnapshotRevision(p) : p \in cosSnapshot[n].previous}) + 1
                 /\ cos[n].revision = cosItems[n].revision
            ELSE /\ n \notin fixPatched
                 /\ cosItems[n] = cosSnapshot[n]
                 /\ cos[n].revision = cosSnapshot[n].revision

\* C5: a previous reference that is absent from the snapshot does not make the
\* repair fail; it counts as revision 0, so a stuck object whose previous
\* references are all absent gets revision 1.
C5_MissingAncestorCountsAsZero ==
    FixEnded =>
        /\ fixPc = "done"
        /\ \A n \in DOMAIN cosSnapshot :
             (StuckInSnapshot(n) /\
              \A p \in cosSnapshot[n].previous : p \notin DOMAIN cosSnapshot)
                => cosItems[n].revision = 1

(***************************************************************************)
(* Claims about Bootstrap and the forced cleanup                           *)
(***************************************************************************)

\* forcedCleanup was called in this run.
CascadeStarted == fcResult # "none"

\* C6 as stated: the cascade is triggered only when the Deployment is present
\* with an Available condition of status False.
C6_CascadeOnlyIfPresentAndUnavailable ==
    CascadeStarted => probeSaw = "False"

\* C6 amended: the cascade is triggered exactly when the probe finds the
\* Deployment absent or present with Available=False; it is not triggered
\* when the Deployment is present without Available=False.
C6_CascadeIfAbsentOrUnavailable ==
    /\ CascadeStarted => probeSaw \in {"absent", "False"}
    /\ probeSaw \in {"absent", "False"} => CascadeStarted
    /\ probeSaw \in {"True", "None", "error"} => ~CascadeStarted

\* C6 witness: the cascade runs although the Deployment is absent.
C6_Witness ==
    CascadeStarted /\ probeSaw = "absent" /\ cLog # <<>>

\* C7: a run that found the ClusterPackage and completed the cascade goes on
\* to self-install: unless the store fails, it installs the CRDs, creates the
\* ClusterPackage, starts the manager and does not end in an error.
C7_CascadeThenSelfInstall ==
    (fcResult = "nil" /\ bPc \in {"returned", "crashed"} /\ bErr # "Err") =>
        /\ {"crds", "create", "manager"} \subseteq bSteps
        /\ bErr = "nil"

\* The call at position i of the log found its object gone.
VerifiedGone(i, kind) ==
    /\ cLog[i].kind = kind
    /\ cLog[i].op = "verify"
    /\ cLog[i].e = "NotFound"

\* The calls at positions i and j of the log are on the same object.
SameObject(i, j) ==
    /\ cLog[i].kind = cLog[j].kind
    /\ cLog[i].op # "list"
    /\ cLog[j].op # "list"
    /\ cLog[i].name = cLog[j].name

\* C8: the three steps of the cascade are strictly ordered: nothing is done
\* to a ClusterObjectDeployment before the ClusterPackage was re-fetched and
\* found absent, nothing to a ClusterObjectSet before every listed
\* ClusterObjectDeployment was found absent, and within a step an object's
\* delete, finalizer release and check are over before the next object is
\* touched.
C8_CascadeStepsOrdered ==
    \A j \in DOMAIN cLog :
        /\ cLog[j].kind = "od" =>
              \E i \in 1..(j - 1) : VerifiedGone(i, "pkg")
        /\ cLog[j].kind = "os" =>
              /\ \E i \in 1..(j - 1) : VerifiedGone(i, "pkg")
              /\ \E i \in 1..(j - 1) :
                    cLog[i].kind = "od" /\ cLog[i].op = "list" /\ cLog[i].e = "nil"
              /\ \A n \in odListed :
                    \E i \in 1..(j - 1) : VerifiedGone(i, "od") /\ cLog[i].name = n
        /\ cLog[j].op = "strip" =>
              /\ j > 1
              /\ SameObject(j - 1, j)
              /\ cLog[j - 1].op = "delete"
              /\ cLog[j - 1].e = "nil"
        /\ cLog[j].op = "verify" =>
              /\ j > 1
              /\ SameObject(j - 1, j)
              /\ cLog[j - 1].op \in {"delete", "strip"}
              /\ cLog[j - 1].e = "nil"
        /\ (cLog[j].op = "delete" /\ j > 1 /\ cLog[j - 1].kind = cLog[j].kind) =>
              \/ cLog[j - 1].op = "list" /\ cLog[j - 1].e = "nil"
              \/ VerifiedGone(j - 1, cLog[j].kind)

\* C8 witness: a cascade went through a ClusterObjectDeployment and two
\* ClusterObjectSets and returned nil.
C8_Witness ==
    /\ fcResult = "nil"
    /\ odListed # {}
    /\ Cardinality(osListed) = 2

\* C9: when forcedCleanup returned nil, the ClusterPackage and every object
\* it listed are gone from the store; and a post-delete check that does not
\* answer NotFound ends the cascade with an error.
C9_SuccessMeansGone ==
    /\ fcResult = "nil" =>
          /\ ~cpkg.exists
          /\ \A n \in odListed : ~ods[n].exists
          /\ \A n \in osListed : ~cos[n].exists
    /\ \A i \in DOMAIN cLog :
          (cLog[i].op = "verify" /\ cLog[i].e # "NotFound") =>
              /\ i = Len(cLog)
              /\ fcResult = "error"
              /\ bErr # "nil"
              /\ bPc = "returned"

\* C9 witness: forcedCleanup returned nil after releasing the finalizers of
\* the ClusterPackage and of a listed object.
C9_Witness ==
    /\ fcResult = "nil"
    /\ \E i \in DOMAIN cLog :
          cLog[i].kind = "pkg" /\ cLog[i].op = "strip" /\ cLog[i].e = "nil"
    /\ \E i \in DOMAIN cLog :
          cLog[i].kind = "os" /\ cLog[i].op = "strip" /\ cLog[i].e = "nil"

\* C10: forcedCleanup called when the ClusterPackage and all owned objects
\* are already gone returns nil, unless the store fails, and changes nothing.
C10_CleanupIdempotent ==
    (fcEntryEmpty /\ fcResult \in {"nil", "error"}) =>
        /\ fcResult = "nil" \/ bErr = "Err"
        /\ OwnedAllGone

\* C11: when a forced cleanup aborted with an error and left owned
\* ClusterObjectDeployments or ClusterObjectSets behind, the Bootstrap run
\* after the restart runs the forced cleanup again, so that once this run has
\* returned without error none of the objects left behind is in the store.
C11_RetryRemovesLeftBehind ==
    (restarted /\ leftBehind # {} /\ bPc = "returned" /\ bErr = "nil") =>
        /\ fcResult = "nil"
        /\ leftBehind \cap OwnedInStore = {}

(***************************************************************************)
(* Claims about Bootstrapper.Bootstrap of package bootstrap                *)
(***************************************************************************)

\* needsBootstrap was called and has returned.
Probed == nNeeds # NoNeeds

\* C12: needsBootstrap returns (true, nil) when the Deployment is absent,
\* (true, nil) when it is present without an Available condition of status
\* True, (false, nil) when Available is True, and returns any other read
\* error as an error.
C12_NeedsBootstrapAnswers ==
    Probed =>
        /\ nProbeGet = "NotFound" =>
               nNeeds = [need |-> TRUE, err |-> "nil"]
        /\ (nProbeGet = "nil" /\ nProbeDeploy \in {"False", "None"}) =>
               nNeeds = [need |-> TRUE, err |-> "nil"]
        /\ (nProbeGet = "nil" /\ nProbeDeploy = "True") =>
               nNeeds = [need |-> FALSE, err |-> "nil"]
        /\ nProbeGet \notin {"nil", "NotFound"} =>
               nNeeds.err = nProbeGet
        /\ nProbeGet = "NotFound" <=> nProbeDeploy = "absent" /\ nNeeds.err = "nil"

C12_Witness ==
    /\ Probed
    /\ nProbeGet = "nil"
    /\ nProbeDeploy = "None"
    /\ nNeeds.need

\* C13: if no read of the ClusterPackage by the poller fails, neither the
\* caller cancels the context nor the manager fails, and the ClusterPackage
\* becomes available while the manager runs, then the poller calls cancel(),
\* the manager returns, and bootstrap returns nil with the manager's context
\* in the state Canceled.
C13_AvailableEndsBootstrap ==
    ( /\ [](nLastPoll # "error")
      /\ [](~parentCancelled)
      /\ [](~nMgrFailed)
      /\ <>(nPc = "manager" /\ cpkg.available) )
    => <>( /\ nPc = "returned"
           /\ nManagerPc = "returned"
           /\ nErr = "nil"
           /\ nCancelCalled
           /\ CtxErr = "Canceled" )

\* The poller saw the ClusterPackage available on an even-numbered poll, the
\* second one at the earliest, and bootstrap returned nil.
C13_Witness ==
    /\ nPc = "returned"
    /\ nErr = "nil"
    /\ nCancelCalled
    /\ nLastPoll = "available"
    /\ ~nTick
    /\ ~parentCancelled

\* C14: when the context given to Bootstrap is cancelled while the
\* ClusterPackage is not yet available, the poller stops because of the
\* cancellation alone: the round that finds the context done does not end in
\* the panic that aborts the process.
C14_CancellationStopsPoller ==
    nLastPoll = "ctxdone" =>
        /\ nPollerPc # "panic"
        /\ nPc # "aborted"

\* A round of the poller is taken in this step.
PollStep == nTick' # nTick

\* C15: a round of the poller whose read of the ClusterPackage fails ends in
\* the panic that aborts the process: the poller does not call cancel() in
\* that round, and once it has panicked it neither polls again nor calls
\* cancel().
C15_ReadErrorAbortsWithoutCancel ==
    /\ [][(PollStep /\ nLastPoll' = "error") =>
            /\ nPollerPc' = "panic"
            /\ nPc' = "aborted"
            /\ ~nCancelCalled']_vars
    /\ [][nPollerPc = "panic" =>
            /\ ~PollStep
            /\ nPollerPc' = "panic"
            /\ ~nCancelCalled']_vars

C15_Witness ==
    /\ nPollerPc = "panic"
    /\ nLastPoll = "error"
    /\ nPc = "aborted"
    /\ ~nCancelCalled
    /\ ~parentCancelled

\* Bootstrap called what.
Called(what) == \E i \in DOMAIN nCalls : nCalls[i] = what

\* This run started neither the poller nor the manager and left the
\* environment variable alone.
NothingStarted ==
    /\ ~Called("poller")
    /\ ~Called("setenv")
    /\ ~Called("runManager")
    /\ nPollerPc = "off"
    /\ nManagerPc = "off"
    /\ ~nForceAdoption

\* C16: every run calls init first and probes the Deployment only after it;
\* when the probe finds the Deployment with Available=True the run returns
\* nil and has started neither the manager nor the poller nor set the
\* adoption flag; an error of init or of the probe ends the run before
\* runManager is called.
C16_InitThenProbeThenMaybeBootstrap ==
    /\ nPc # "start" => nCalls[1] = "init"
    /\ \A i \in DOMAIN nCalls : nCalls[i] = "init" => i = 1
    /\ (Probed /\ nProbeGet = "nil" /\ nProbeDeploy = "True") =>
           /\ nPc = "returned"
           /\ nErr = "nil"
           /\ NothingStarted
    /\ (nPc = "returned" /\ nCalls = <<"init">>) =>
           /\ nErr # "nil"
           /\ NothingStarted
    /\ (Probed /\ nProbeGet \notin {"nil", "NotFound"}) =>
           /\ nPc = "returned"
           /\ nErr = nProbeGet
           /\ NothingStarted

C16_Witness ==
    /\ Probed
    /\ nProbeGet = "nil"
    /\ nProbeDeploy = "True"
    /\ nPc = "returned"
    /\ nCalls = <<"init", "needsBootstrap">>

(***************************************************************************)
(* Claims about two runs racing through the self-bootstrap                 *)
(***************************************************************************)

\* The calls of Create that the store answered with nil.
CreatedBy == {i \in DOMAIN createLog : createLog[i].e = "nil"}

\* C17: when two runs race through createPKOPackage with the ClusterPackage
\* absent at the start, a Create answered with AlreadyExists is not an error
\* of createPKOPackage, any other error of Create is returned, at most one
\* Create puts a ClusterPackage "package-operator" into the store, and when
\* the store fails neither Create both calls return nil.
C17_RacingCreatesBothSucceed ==
    /\ \A i \in DOMAIN createLog :
          createLog[i].ret =
             IF createLog[i].e \in {"nil", "AlreadyExists"} THEN "nil"
             ELSE createLog[i].e
    /\ Cardinality(CreatedBy) <= 1
    /\ (Len(createLog) = 2 /\ \A i \in DOMAIN createLog : createLog[i].e # "Err") =>
          /\ createLog[1].e = "nil"
          /\ createLog[2].e = "AlreadyExists"
          /\ createLog[1].ret = "nil" /\ createLog[2].ret = "nil"
          /\ bPc # "self_create" /\ peerPc # "self_create"

C17_Witness ==
    /\ Len(createLog) = 2
    /\ createLog[1].who # createLog[2].who
    /\ createLog[1].e = "nil"
    /\ createLog[2].e = "AlreadyExists"
    /\ createLog[2].ret = "nil"
    /\ cpkg.exists

(***************************************************************************)
(* Further claims about GenericPackageController.Reconcile                 *)
(***************************************************************************)

\* The Reconcile call has returned.
Returned == rPc = "returned"

\* C18, as claimed: with a recorder set, RecordPackageMetrics is called in
\* every Reconcile call that returns no error, the call that finds no Package
\* included, and in no call that returns an error.
C18_MetricsOnEveryCallWithoutError ==
    (Returned /\ recorder) => (metricsRecorded <=> err = "nil")

\* C18, amended: RecordPackageMetrics is called exactly in the calls that
\* loaded the Package and return no error, on the forward path and on the
\* deletion path, provided a recorder is set; it is not called when the
\* Package was not found, when the call returns an error (also one of the
\* final status update), or when no recorder is set.
C18_MetricsOnEveryLoadedCallWithoutError ==
    /\ Returned =>
          (metricsRecorded <=> (rLoaded /\ err = "nil" /\ recorder))
    /\ metricsRecorded => Returned

\* A call that found no Package returned nil without recording metrics.
C18_Witness ==
    /\ Returned
    /\ recorder
    /\ fetchErr = "NotFound"
    /\ err = "nil"
    /\ ~metricsRecorded

\* C19: when the Get answers NotFound, Reconcile returns an empty result and
\* nil and has called no sub-reconciler, neither handleDeletion nor
\* updateStatus, and has written nothing to the store; any other error of
\* the Get is returned, again with nothing else done.
C19_NotFoundIsNoOp ==
    (Returned /\ fetchErr # "nil") =>
        /\ fetchErr = "NotFound" => (res = "zero" /\ err = "nil")
        /\ fetchErr # "NotFound" => (res = "zero" /\ err = fetchErr)
        /\ outcomes = <<>>
        /\ ~deletionRan
        /\ ~statusUpdateRan
        /\ storeWrites = 0
        /\ ~rLoaded

C19_Witness ==
    /\ Returned
    /\ fetchErr = "NotFound"
    /\ err = "nil"
    /\ res = "zero"
    /\ storeWrites = 0
    /\ ~pkgStore.exists

(***************************************************************************)
(* Further claims about fixMissingRevisionNumbers                          *)
(***************************************************************************)

\* Every previous reference of a listed object names a listed object.
AncestorsListed ==
    \A n \in DOMAIN cosSnapshot :
        cosSnapshot[n].previous \subseteq DOMAIN cosSnapshot

\* Every listed object that does not look stuck has a revision above those
\* of its previous references.
NonStuckOrdered ==
    \A n \in DOMAIN cosSnapshot :
        ~StuckInSnapshot(n) =>
            \A p \in cosSnapshot[n].previous :
                cosSnapshot[n].revision > SnapshotRevision(p)

\* C20: from a snapshot that holds every referenced ancestor and in which the
\* objects that are not stuck are ordered, a repair that returned nil leaves
\* every object it patched with a revision above the revision each of its
\* previous references has after the repair, whatever the order of the list.
C20_RepairedAbovePrevious ==
    (fixPc = "done" /\ AncestorsListed /\ NonStuckOrdered) =>
        \A n \in fixPatched :
            \A p \in cos[n].previous :
                cos[n].revision > cos[p].revision

\* C21: the revision the repair gives a stuck object is computed from the
\* revisions of the snapshot alone, so that it is the same for every order
\* of the list: with every referenced ancestor listed, a repair that returned
\* nil has given each object it patched the largest snapshot revision of its
\* previous references plus one.
C21_AssignedFromSnapshotAlone ==
    (fixPc = "done" /\ AncestorsListed) =>
        \A n \in fixPatched :
            /\ cosItems[n].revision =
                  MaxOf({SnapshotRevision(p) : p \in cosSnapshot[n].previous}) + 1
            /\ cos[n].revision = cosItems[n].revision

(***************************************************************************)
(* Further claims about Bootstrap                                          *)
(***************************************************************************)

\* Every CustomResourceDefinition of the bundle is in the store.
AllCRDsInstalled == \A i \in DOMAIN BundleCRDs : BundleCRDs[i] \in crds

\* runManager was called in this run.
ManagerLaunched == managerPc # "off"

\* C22: in a self-bootstrap the CustomResourceDefinitions of the bundle are
\* all created, an AlreadyExists being no error, before the ClusterPackage is
\* created; the ClusterPackage is created and PKO_FORCE_ADOPTION is set
\* before runManager is called; and a failure of loading the bundle, of
\* creating a CustomResourceDefinition or of creating the ClusterPackage
\* ends the run with that error, runManager not having been called.
C22_SelfBootstrapStepsOrdered ==
    /\ [](bPc \in {"self_create", "self_start"} =>
             /\ "crds" \in bSteps
             /\ AllCRDsInstalled
             /\ ~ManagerLaunched)
    /\ []("create" \in bSteps => ("crds" \in bSteps /\ AllCRDsInstalled))
    /\ [](ManagerLaunched =>
             /\ {"crds", "create", "manager"} \subseteq bSteps
             /\ forceAdoption)
    /\ [][(bPc \in {"self_load", "self_crds", "self_create"} /\ bPc' = "returned") =>
             /\ bErr' \notin {"nil", "AlreadyExists"}
             /\ ~ManagerLaunched'
             /\ ~forceAdoption'
             /\ "manager" \notin bSteps']_vars
    /\ [][(bPc = "self_crds" /\ "crds" \in bSteps') => AllCRDsInstalled']_vars
    /\ [][(bPc = "self_create" /\ bPc' # bPc) =>
             /\ createLog' # createLog
             /\ LET c == createLog'[Len(createLog')]
                IN  IF c.ret = "nil"
                    THEN bPc' = "self_start" /\ cpkg'.exists
                    ELSE bPc' = "returned" /\ bErr' = c.e]_vars

\* The bundle's CustomResourceDefinitions were in the store before the run;
\* the run went through them, created the ClusterPackage and started the
\* manager with the adoption flag set.
C22_Witness ==
    /\ bPc = "manager"
    /\ ManagerLaunched
    /\ forceAdoption
    /\ bSteps = {"crds", "create", "manager"}
    /\ Len(createLog) = 1
    /\ createLog[1].e = "nil"
    /\ ods["package-operator"].exists

\* The patch of image and config was issued in this run.
PatchIssued == "patch" \in bSteps

\* C23: the patch of the ClusterPackage's image and config is issued only
\* after the repair listed the ClusterObjectSets and went through them
\* without error; when the check for the forced cleanup, the forced cleanup
\* or the repair fails, the run returns that error and issues no patch.
C23_PatchOnlyAfterRepair ==
    /\ [](PatchIssued =>
             /\ fixPc = "done"
             /\ probeSaw \notin {"none", "error"}
             /\ fcResult \in {"none", "nil"})
    /\ [][(~PatchIssued /\ PatchIssued') =>
             /\ bPc = "fix"
             /\ fixPc = "done"
             /\ (cosList = <<>> \/ fixIdx = Len(cosList))]_vars
    /\ []((probeSaw = "error" \/ fcResult = "error") =>
             /\ bPc = "returned"
             /\ bErr # "nil"
             /\ fixPc = "idle"
             /\ ~PatchIssued)
    /\ []((fixPc = "failed" /\ bPc = "returned") =>
             /\ bErr # "nil"
             /\ ~PatchIssued)
    /\ [](fixPc \in {"failed", "panic"} => ~PatchIssued)
    /\ [][(cpkg.image # "new" /\ cpkg'.image = "new") =>
             (PatchIssued' \/ createLog' # createLog)]_vars

\* The repair gave a stuck ClusterObjectSet its revision and the patch of
\* the ClusterPackage followed.
C23_Witness ==
    /\ PatchIssued
    /\ fixPatched # {}
    /\ fixPc = "done"
    /\ bPc = "returned"
    /\ bErr = "nil"
    /\ cpkg.image = "new"

\* The context handed to runManager is cancelled while the context given to
\* Bootstrap is not.
ManagerCtxCancelledAlone == CtxDone /\ ~parentCancelled

\* C24: the poller cancels the context handed to the manager only after a
\* round of its wait has read the ClusterPackage and found PackageAvailable
\* true: whenever the manager's context is cancelled and the context given to
\* Bootstrap is not, cancel() was called by the poller and its last round
\* ended on an available ClusterPackage; the round that calls cancel() is
\* taken with the ClusterPackage present and available and the context not
\* yet done; and a manager that returned on a cancelled context returned
\* after such a round or after the caller's cancellation.
C24_CancelOnlyAfterAvailablePoll ==
    /\ [](ManagerCtxCancelledAlone =>
             /\ nCancelCalled
             /\ nLastPoll = "available"
             /\ nPollerPc = "done")
    /\ [](nCancelCalled => nLastPoll = "available")
    /\ [][(~nCancelCalled /\ nCancelCalled') =>
             /\ PollStep
             /\ ~CtxDone
             /\ cpkg.exists /\ cpkg.available
             /\ nLastPoll' = "available"]_vars
    /\ []((nManagerPc = "returned" /\ ~nMgrFailed /\ ~parentCancelled) =>
             nLastPoll = "available")

\* The poller has called cancel() after finding the ClusterPackage available
\* and the manager, whose context is now cancelled, has not returned yet.
C24_Witness ==
    /\ ManagerCtxCancelledAlone
    /\ nLastPoll = "available"
    /\ nManagerPc = "running"
    /\ nPc = "manager"

====
